---- MODULE Spec2Model ----
(***************************************************************************)
(* Predictive climate control core of homebridge-melcloud-control:         *)
(* the HVAC state machine (predictive/state-machine.js), the action        *)
(* executor (deviceata/action-executor.js), the external sensor client     *)
(* (shellycloud.js, deviceata/external-sensor.js) and the deviceState      *)
(* handler of DeviceAta (deviceata/index.js).                              *)
(*                                                                         *)
(* Units: times are milliseconds (Date.now()), temperatures are tenths of  *)
(* a degree Celsius (23.0 C = 230).  JavaScript null/undefined is Null.    *)
(***************************************************************************)
EXTENDS Integers, Sequences, FiniteSets, TLC

Null == -9999

\* JavaScript truthiness of a nullable number: null and 0 are falsy.
Truthy(x) == x # Null /\ x # 0

(***************************************************************************)
(* predictive/constants.js                                                 *)
(***************************************************************************)
STANDBY == "STANDBY"
PRE_HEAT == "PRE_HEAT"
PRE_COOL == "PRE_COOL"
HEATING_ACTIVE == "HEATING_ACTIVE"
COOLING_ACTIVE == "COOLING_ACTIVE"
HEATING_COAST == "HEATING_COAST"
COOLING_COAST == "COOLING_COAST"
SENSOR_FAULT == "SENSOR_FAULT"

States == {STANDBY, PRE_HEAT, PRE_COOL, HEATING_ACTIVE, COOLING_ACTIVE,
           HEATING_COAST, COOLING_COAST, SENSOR_FAULT}

WINTER == "winter"
SUMMER == "summer"
SeasonMode == {WINTER, SUMMER}

DEADBAND == 40
HYSTERESIS == 20
MIN_ON_TIME == 300
MIN_OFF_TIME == 180
MIN_MODE_SWITCH == 600
COLD_SNAP_THRESHOLD == 50
HEATWAVE_THRESHOLD == 300
COMFORT_BAND == 30
DEFAULT_TARGET_TEMP == 230

\* StateMachine constructor: this.config
deadband == DEADBAND
hysteresis == HYSTERESIS
minOnTime == MIN_ON_TIME * 1000
minOffTime == MIN_OFF_TIME * 1000
minModeSwitch == MIN_MODE_SWITCH * 1000

\* ActionExecutor constructor
minActionInterval == 60000

(***************************************************************************)
(* Bounds of the model and the inputs the operations are driven with.      *)
(***************************************************************************)
StartTime == 1000000
\* The clock advances in steps of TickStep up to MaxTime.
TickStep == 180000
MaxTime == 1720000
\* Entries the history ring keeps: the constructor sets maxHistoryLength to
\* 50, the model runs the ring with HistoryKept entries.
HistoryKept == 1
\* new StateMachine(device) sets maxHistoryLength to 50.
DefaultMaxHistoryLength == 50
\* The history run: the clock moves on by HistoryTick before each forced
\* transition, for HistoryRun milliseconds in all.
HistoryTick == 1
HistoryRun == 120
\* The override run keeps OverrideHistoryKept entries and ends at
\* OverrideMaxTime.
OverrideHistoryKept == 2
OverrideMaxTime == 1180000
\* The weather client is followed for WeatherRun milliseconds.
WeatherRun == 10800000
\* The sensor client is followed for SensorRun milliseconds in steps of
\* SensorStep, for at most MaxPolls calls of fetchTemperature.
SensorStep == 200
SensorRun == 2000
MaxPolls == 4
\* The comfort target is followed over MaxTicks ticks and MaxWrites writes.
MaxTicks == 3
MaxWrites == 2
\* The clock of the device model advances in steps of PollStep up to
\* DeviceMaxTime, and at most MaxSends commands are handed to the AC client.
PollStep == 30000
DeviceMaxTime == 1060000
MaxSends == 2

\* Room temperatures around the target: deviations of -3, -1, +1 and +3
\* degrees from TargetTemps.
RoomTemps == {200, 220, 240, 260}
TargetTemps == {230}
Setpoints == {220, 245}

\* The forecasts a call is made with: none (null), one that holds a cold
\* snap and one that holds a heatwave.  Hourly(forecast) is forecast.hourly
\* as the sequence of its hourly temperatures.
ForecastHours == 24
NoForecast == "null"
ColdSnapForecast == "coldSnap"
HeatwaveForecast == "heatwave"
Forecasts == {NoForecast, ColdSnapForecast, HeatwaveForecast}

\* Forecasts at the edges of the detectors' conditions.  A shape gives the
\* number of hourly entries, the temperature they have (base), the entries
\* (1-based, from..to) that have another temperature (value), and the entry
\* whose temperature is null (0 for none).
Shape(len, base, from, to, value, nullAt) ==
    [len |-> len, base |-> base, from |-> from, to |-> to, value |-> value,
     nullAt |-> nullAt]

ForecastShape(forecast) ==
    CASE forecast = ColdSnapForecast -> Shape(ForecastHours, 100, 15, ForecastHours, 20, 0)
      [] forecast = HeatwaveForecast -> Shape(ForecastHours, 250, 15, 15, 320, 0)
      [] forecast = "drop4.9"        -> Shape(24, 100, 15, 24, 51, 0)
      [] forecast = "drop5.0"        -> Shape(24, 100, 15, 24, 50, 0)
      [] forecast = "minAt12"        -> Shape(24, 100, 13, 24, 20, 0)
      [] forecast = "minAt13"        -> Shape(24, 100, 14, 24, 20, 0)
      [] forecast = "minAt36"        -> Shape(48, 100, 37, 48, 20, 0)
      [] forecast = "minAt37"        -> Shape(48, 100, 38, 48, 20, 0)
      [] forecast = "minAfter48"     -> Shape(60, 100, 50, 60, 20, 0)
      [] forecast = "cold23Hours"    -> Shape(23, 100, 15, 23, 20, 0)
      [] forecast = "cold23NonNull"  -> Shape(24, 100, 15, 24, 20, 24)
      [] forecast = "coldNullFirst"  -> Shape(25, 100, 14, 25, 20, 1)
      [] forecast = "peak29.9"       -> Shape(24, 250, 15, 15, 299, 0)
      [] forecast = "peak30.0"       -> Shape(24, 250, 15, 15, 300, 0)
      [] forecast = "peakAt0"        -> Shape(24, 250, 1, 1, 320, 0)
      [] forecast = "peakAt47"       -> Shape(48, 250, 48, 48, 320, 0)
      [] forecast = "peakAfter48"    -> Shape(60, 250, 49, 49, 320, 0)
      [] forecast = "hot23Hours"     -> Shape(23, 250, 15, 15, 320, 0)
      [] forecast = "hot23NonNull"   -> Shape(24, 250, 15, 15, 320, 24)
      [] OTHER                       -> Shape(0, 0, 0, 0, 0, 0)

DetectorForecasts ==
    {"drop4.9", "drop5.0", "minAt12", "minAt13", "minAt36", "minAt37",
     "minAfter48", "cold23Hours", "cold23NonNull", "coldNullFirst",
     "peak29.9", "peak30.0", "peakAt0", "peakAt47", "peakAfter48",
     "hot23Hours", "hot23NonNull"}

AllForecasts == Forecasts \cup DetectorForecasts

Hourly(forecast) ==
    LET shape == ForecastShape(forecast) IN
    [i \in 1..shape.len |->
        IF i = shape.nullAt THEN Null
        ELSE IF shape.from <= i /\ i <= shape.to THEN shape.value
        ELSE shape.base]

\* Readings the Shelly sensor delivers, and the room temperatures and
\* forecasts the ticks of the device model run with.
SensorTemps == {215}
DeviceRoomTemps == {200, 260}
DeviceForecasts == {NoForecast}

VARIABLES
    now,              \* Date.now()
    currentState,     \* StateMachine.currentState
    stateEnteredAt,   \* StateMachine.stateEnteredAt
    timers,           \* StateMachine.timers
    stateHistory,     \* StateMachine.stateHistory
    maxHistoryLength, \* StateMachine.maxHistoryLength
    result,           \* the value the most recent call on the state machine returned
    roomCurrentTemp,  \* DeviceAta.roomCurrentTemp
    externalTemperature, \* DeviceAta.externalTemperature
    shelly,           \* ShellyCloud.temperature and ShellyCloud.isAvailable
    lastActionTime,   \* ActionExecutor.lastActionTime
    sends,            \* the melCloudAta.send calls made by the ActionExecutor
    args,             \* the arguments of the most recent call of a pure function
    ret,              \* the value that call returned
    targetTemperature,      \* PredictiveController.targetTemperature
    userComfortPreference,  \* PredictiveController.userComfortPreference
    temperatureOffset,      \* DeviceAta.temperatureOffset
    deviceData,             \* DeviceAta.deviceData.Device: the last AC snapshot
    userTargetTemperature,  \* DeviceAta.userTargetTemperature
    lastCompensatedTarget,  \* DeviceAta.lastCompensatedTarget
    reapplySends,           \* the melCloudAta.send calls made by reapplyCompensation
    weather,                \* WeatherClient.forecast, lastFetchTime and isAvailable
    humidity,               \* ShellyCloud.humidity
    lastRequestTime,        \* ShellyCloud.lastRequestTime
    waiting,                \* fetchTemperature calls in the rate-limit wait: their wake times
    inflight,               \* fetchTemperature calls awaiting the HTTP response
    requests,               \* the times of the HTTP requests of the ShellyCloud client
    poll,                   \* the setInterval timer of ExternalSensor.init
    accessoryState,         \* DeviceAta.accessoryState: what StateParser.parse returned
    writes                  \* the target temperatures written through the accessory and their sends

smVars == <<currentState, stateEnteredAt, timers, stateHistory,
            maxHistoryLength, result>>
devVars == <<roomCurrentTemp, externalTemperature, shelly, lastActionTime, sends>>
callVars == <<args, ret>>
ctlVars == <<targetTemperature, userComfortPreference>>
offsetVars == <<temperatureOffset, deviceData, userTargetTemperature,
                lastCompensatedTarget, reapplySends>>
cliVars == <<weather, humidity, lastRequestTime, waiting, inflight, requests, poll>>
accVars == <<accessoryState, writes>>
vars == <<now, smVars, devVars, callVars, ctlVars, offsetVars, cliVars, accVars>>

(***************************************************************************)
(* Actions returned by the state machine.                                  *)
(***************************************************************************)
NullAction == [type |-> "null", mode |-> "undefined", setpoint |-> Null]
SetModeAction(mode, sp) == [type |-> "setMode", mode |-> mode, setpoint |-> sp]
CoastAction(sp) == [type |-> "coast", mode |-> "undefined", setpoint |-> sp]

Reason(text, dev) == [text |-> text, dev |-> dev]

(***************************************************************************)
(* StateMachine helpers                                                    *)
(***************************************************************************)
_isActiveState(state) ==
    state \in {HEATING_ACTIVE, COOLING_ACTIVE, PRE_HEAT, PRE_COOL}

_isHeatingState(state) ==
    state \in {HEATING_ACTIVE, PRE_HEAT, HEATING_COAST}

_isCoolingState(state) ==
    state \in {COOLING_ACTIVE, PRE_COOL, COOLING_COAST}

SeqMin(s) == CHOOSE m \in {s[i] : i \in 1..Len(s)} :
                 \A i \in 1..Len(s) : m <= s[i]
SeqMax(s) == CHOOSE m \in {s[i] : i \in 1..Len(s)} :
                 \A i \in 1..Len(s) : m >= s[i]
\* Array.prototype.findIndex (0-based), for a value known to occur.
FindIndex(s, v) == (CHOOSE i \in 1..Len(s) :
                       s[i] = v /\ \A j \in 1..(i - 1) : s[j] # v) - 1
\* Array.prototype.slice(0, n)
Slice(s, n) == SubSeq(s, 1, IF Len(s) < n THEN Len(s) ELSE n)

ForecastTemps(forecast) == SelectSeq(Hourly(forecast), LAMBDA t : t # Null)

\* Mutant: a minimum 12 hours away already counts as a cold snap.
_detectColdSnap_From12(forecast) ==
    IF forecast = NoForecast \/ Len(Hourly(forecast)) = 0 THEN FALSE
    ELSE LET temps == ForecastTemps(forecast) IN
         IF Len(temps) < 24 THEN FALSE
         ELSE LET current == temps[1]
                  min48h == SeqMin(Slice(temps, 48))
                  drop == current - min48h
                  hoursUntil == FindIndex(temps, min48h)
              IN  drop >= COLD_SNAP_THRESHOLD /\ hoursUntil >= 12 /\ hoursUntil <= 36

_detectColdSnap(forecast) ==
    IF forecast = NoForecast \/ Len(Hourly(forecast)) = 0 THEN FALSE
    ELSE LET temps == ForecastTemps(forecast) IN
         IF Len(temps) < 24 THEN FALSE
         ELSE LET current == temps[1]
                  min48h == SeqMin(Slice(temps, 48))
                  drop == current - min48h
                  hoursUntil == FindIndex(temps, min48h)
              IN  drop >= COLD_SNAP_THRESHOLD /\ hoursUntil > 12 /\ hoursUntil <= 36

_detectHeatwave(forecast) ==
    IF forecast = NoForecast \/ Len(Hourly(forecast)) = 0 THEN FALSE
    ELSE LET temps == ForecastTemps(forecast) IN
         IF Len(temps) < 24 THEN FALSE
         ELSE SeqMax(Slice(temps, 48)) >= HEATWAVE_THRESHOLD

\* The detectors' results for the forecasts of the model, computed once.
coldSnapOf == [f \in AllForecasts |-> _detectColdSnap(f)]
heatwaveOf == [f \in AllForecasts |-> _detectHeatwave(f)]

\* Mutant: the upper edge of the dead band already counts as warm enough (and
\* the lower edge as cool enough).
_determineDesiredState_InclusiveEdge(cur, deviation, halfDeadband, seasonMode, forecast) ==
    IF forecast # NoForecast /\ coldSnapOf[forecast] /\ seasonMode = WINTER
       /\ ~_isHeatingState(cur)
    THEN PRE_HEAT
    ELSE IF forecast # NoForecast /\ heatwaveOf[forecast] /\ seasonMode = SUMMER
            /\ ~_isCoolingState(cur)
    THEN PRE_COOL
    ELSE IF seasonMode = WINTER
    THEN IF deviation < -hysteresis THEN HEATING_ACTIVE
         ELSE IF deviation >= halfDeadband
              THEN (IF _isHeatingState(cur) THEN HEATING_COAST ELSE STANDBY)
         ELSE IF cur = HEATING_COAST /\ deviation > -5 THEN STANDBY
         ELSE cur
    ELSE IF deviation > hysteresis THEN COOLING_ACTIVE
         ELSE IF deviation <= -halfDeadband
              THEN (IF _isCoolingState(cur) THEN COOLING_COAST ELSE STANDBY)
         ELSE IF cur = COOLING_COAST /\ deviation < 5 THEN STANDBY
         ELSE cur

\* Mutant: a cold snap starts pre-heating in any season.
_determineDesiredState_SnapAnySeason(cur, deviation, halfDeadband, seasonMode, forecast) ==
    IF forecast # NoForecast /\ coldSnapOf[forecast]
       /\ ~_isHeatingState(cur)
    THEN PRE_HEAT
    ELSE IF forecast # NoForecast /\ heatwaveOf[forecast] /\ seasonMode = SUMMER
            /\ ~_isCoolingState(cur)
    THEN PRE_COOL
    ELSE IF seasonMode = WINTER
    THEN IF deviation < -hysteresis THEN HEATING_ACTIVE
         ELSE IF deviation > halfDeadband
              THEN (IF _isHeatingState(cur) THEN HEATING_COAST ELSE STANDBY)
         ELSE IF cur = HEATING_COAST /\ deviation > -5 THEN STANDBY
         ELSE cur
    ELSE IF deviation > hysteresis THEN COOLING_ACTIVE
         ELSE IF deviation < -halfDeadband
              THEN (IF _isCoolingState(cur) THEN COOLING_COAST ELSE STANDBY)
         ELSE IF cur = COOLING_COAST /\ deviation < 5 THEN STANDBY
         ELSE cur

_determineDesiredState(cur, deviation, halfDeadband, seasonMode, forecast) ==
    IF forecast # NoForecast /\ coldSnapOf[forecast] /\ seasonMode = WINTER
       /\ ~_isHeatingState(cur)
    THEN PRE_HEAT
    ELSE IF forecast # NoForecast /\ heatwaveOf[forecast] /\ seasonMode = SUMMER
            /\ ~_isCoolingState(cur)
    THEN PRE_COOL
    ELSE IF seasonMode = WINTER
    THEN IF deviation < -hysteresis THEN HEATING_ACTIVE
         ELSE IF deviation > halfDeadband
              THEN (IF _isHeatingState(cur) THEN HEATING_COAST ELSE STANDBY)
         ELSE IF cur = HEATING_COAST /\ deviation > -5 THEN STANDBY
         ELSE cur
    ELSE IF deviation > hysteresis THEN COOLING_ACTIVE
         ELSE IF deviation < -halfDeadband
              THEN (IF _isCoolingState(cur) THEN COOLING_COAST ELSE STANDBY)
         ELSE IF cur = COOLING_COAST /\ deviation < 5 THEN STANDBY
         ELSE cur

\* Mutant: the minimum on-time is not checked when leaving an active state.
_canTransitionTo_NoMinOn(cur, tm, t, newState) ==
    /\ ~(/\ ~_isActiveState(cur) /\ _isActiveState(newState)
         /\ Truthy(tm.lastOffTime) /\ t - tm.lastOffTime < minOffTime)
    /\ ~(/\ \/ _isHeatingState(cur) /\ _isCoolingState(newState)
            \/ _isCoolingState(cur) /\ _isHeatingState(newState)
         /\ Truthy(tm.lastModeSwitch) /\ t - tm.lastModeSwitch < minModeSwitch)

\* Mutant: the mode switch delay is compared with the minimum off-time.
_canTransitionTo_ShortModeSwitch(cur, tm, t, newState) ==
    /\ ~(/\ _isActiveState(cur) /\ ~_isActiveState(newState)
         /\ Truthy(tm.lastOnTime) /\ t - tm.lastOnTime < minOnTime)
    /\ ~(/\ ~_isActiveState(cur) /\ _isActiveState(newState)
         /\ Truthy(tm.lastOffTime) /\ t - tm.lastOffTime < minOffTime)
    /\ ~(/\ \/ _isHeatingState(cur) /\ _isCoolingState(newState)
            \/ _isCoolingState(cur) /\ _isHeatingState(newState)
         /\ Truthy(tm.lastModeSwitch) /\ t - tm.lastModeSwitch < minOffTime)

\* Mutant: the minimum on-time never runs out.
_canTransitionTo_OnTimeNeverOver(cur, tm, t, newState) ==
    /\ ~(/\ _isActiveState(cur) /\ ~_isActiveState(newState)
         /\ Truthy(tm.lastOnTime))
    /\ ~(/\ ~_isActiveState(cur) /\ _isActiveState(newState)
         /\ Truthy(tm.lastOffTime) /\ t - tm.lastOffTime < minOffTime)
    /\ ~(/\ \/ _isHeatingState(cur) /\ _isCoolingState(newState)
            \/ _isCoolingState(cur) /\ _isHeatingState(newState)
         /\ Truthy(tm.lastModeSwitch) /\ t - tm.lastModeSwitch < minModeSwitch)

_canTransitionTo(cur, tm, t, newState) ==
    /\ ~(/\ _isActiveState(cur) /\ ~_isActiveState(newState)
         /\ Truthy(tm.lastOnTime) /\ t - tm.lastOnTime < minOnTime)
    /\ ~(/\ ~_isActiveState(cur) /\ _isActiveState(newState)
         /\ Truthy(tm.lastOffTime) /\ t - tm.lastOffTime < minOffTime)
    /\ ~(/\ \/ _isHeatingState(cur) /\ _isCoolingState(newState)
            \/ _isCoolingState(cur) /\ _isHeatingState(newState)
         /\ Truthy(tm.lastModeSwitch) /\ t - tm.lastModeSwitch < minModeSwitch)

\* Mutant: entering STANDBY returns no action.
_getActionForState_StandbyNull(state, predictedSetpoint) ==
    IF state \in {HEATING_ACTIVE, PRE_HEAT} THEN SetModeAction("heat", predictedSetpoint)
    ELSE IF state \in {COOLING_ACTIVE, PRE_COOL} THEN SetModeAction("cool", predictedSetpoint)
    ELSE IF state \in {HEATING_COAST, COOLING_COAST} THEN CoastAction(predictedSetpoint)
    ELSE NullAction

_getActionForState(state, predictedSetpoint) ==
    IF state \in {HEATING_ACTIVE, PRE_HEAT} THEN SetModeAction("heat", predictedSetpoint)
    ELSE IF state \in {COOLING_ACTIVE, PRE_COOL} THEN SetModeAction("cool", predictedSetpoint)
    ELSE IF state \in {STANDBY, HEATING_COAST, COOLING_COAST} THEN CoastAction(predictedSetpoint)
    ELSE NullAction

_getReasonForTransition(fromState, toState, deviation) ==
    IF toState = HEATING_ACTIVE THEN Reason("Starting heating - room too cold", deviation)
    ELSE IF toState = COOLING_ACTIVE THEN Reason("Starting cooling - room too hot", deviation)
    ELSE IF toState = PRE_HEAT THEN Reason("Pre-heating - cold snap approaching", Null)
    ELSE IF toState = PRE_COOL THEN Reason("Pre-cooling - heatwave approaching", Null)
    ELSE IF toState \in {HEATING_COAST, COOLING_COAST}
         THEN Reason("Coasting - target reached", deviation)
    ELSE IF toState = STANDBY
         THEN Reason("Standby - temperature in comfort band", deviation)
    ELSE Reason("Sensor fault - no temperature data", Null)

\* Mutant: a transition into SENSOR_FAULT does not record the off-time.
TimersAfter_FaultKeepsOffTime(tm, oldState, newState, t) ==
    [lastOffTime |-> IF /\ _isActiveState(oldState) /\ ~_isActiveState(newState)
                        /\ newState # SENSOR_FAULT
                     THEN t ELSE tm.lastOffTime,
     lastOnTime |-> IF ~_isActiveState(oldState) /\ _isActiveState(newState)
                    THEN t ELSE tm.lastOnTime,
     lastModeSwitch |-> IF \/ _isHeatingState(oldState) /\ _isCoolingState(newState)
                           \/ _isCoolingState(oldState) /\ _isHeatingState(newState)
                        THEN t ELSE tm.lastModeSwitch]

\* The timers after a transition oldState -> newState at time t.
TimersAfter(tm, oldState, newState, t) ==
    [lastOffTime |-> IF _isActiveState(oldState) /\ ~_isActiveState(newState)
                     THEN t ELSE tm.lastOffTime,
     lastOnTime |-> IF ~_isActiveState(oldState) /\ _isActiveState(newState)
                    THEN t ELSE tm.lastOnTime,
     lastModeSwitch |-> IF \/ _isHeatingState(oldState) /\ _isCoolingState(newState)
                           \/ _isCoolingState(oldState) /\ _isHeatingState(newState)
                        THEN t ELSE tm.lastModeSwitch]

\* Mutant: a full ring rejects the new entry.
HistoryPush_DropsNewest(h, entry) ==
    LET pushed == Append(h, entry)
    IN  IF Len(pushed) > maxHistoryLength THEN h ELSE pushed

\* stateHistory.push(entry), then one shift() if longer than maxHistoryLength.
HistoryPush(h, entry) ==
    LET pushed == Append(h, entry)
    IN  IF Len(pushed) > maxHistoryLength THEN Tail(pushed) ELSE pushed

_transitionTo(newState, res, t) ==
    /\ currentState' = newState
    /\ timers' = TimersAfter(timers, currentState, newState, t)
    /\ stateEnteredAt' = t
    /\ stateHistory' = HistoryPush(stateHistory,
                           [from |-> currentState, to |-> newState,
                            timestamp |-> t, reason |-> res.reason])
    /\ UNCHANGED maxHistoryLength
    /\ result' = [state |-> newState, action |-> res.action, reason |-> res.reason]

\* A return without a transition.
Stay(res) ==
    /\ UNCHANGED <<currentState, stateEnteredAt, timers, stateHistory,
                   maxHistoryLength>>
    /\ result' = [state |-> currentState, action |-> res.action, reason |-> res.reason]

\* The params of processUpdate.  With currentTemp null the other fields are
\* not read, so one combination of them is enough.
Params ==
    [currentTemp : RoomTemps, targetTemp : TargetTemps,
     predictedSetpoint : Setpoints, seasonMode : SeasonMode, forecast : Forecasts]
    \cup
    [currentTemp : {Null}, targetTemp : TargetTemps,
     predictedSetpoint : Setpoints, seasonMode : {WINTER}, forecast : {NoForecast}]

\* Mutant: the sensor fault transition is subject to the timers like any other.
processUpdate_GuardedFault(params, t) ==
    IF params.currentTemp = Null
    THEN IF currentState # SENSOR_FAULT
            /\ ~_canTransitionTo(currentState, timers, t, SENSOR_FAULT)
         THEN Stay([action |-> NullAction,
                    reason |-> Reason("Transition blocked by anti-oscillation timer", Null)])
         ELSE _transitionTo(SENSOR_FAULT,
                  [action |-> NullAction,
                   reason |-> Reason("External temperature sensor unavailable", Null)], t)
    ELSE LET deviation == params.currentTemp - params.targetTemp
             halfDeadband == deadband \div 2
             desiredState == _determineDesiredState(currentState, deviation,
                                 halfDeadband, params.seasonMode, params.forecast)
         IN  IF desiredState # currentState
             THEN IF ~_canTransitionTo(currentState, timers, t, desiredState)
                  THEN Stay([action |-> NullAction,
                             reason |-> Reason("Transition blocked by anti-oscillation timer", Null)])
                  ELSE _transitionTo(desiredState,
                           [action |-> _getActionForState(desiredState, params.predictedSetpoint),
                            reason |-> _getReasonForTransition(currentState, desiredState, deviation)], t)
             ELSE Stay([action |-> NullAction,
                        reason |-> Reason("Maintaining current state", Null)])

\* Mutant: a call that keeps the state re-issues the action of that state.
processUpdate_MaintainReissues(params, t) ==
    IF params.currentTemp = Null
    THEN _transitionTo(SENSOR_FAULT,
             [action |-> NullAction,
              reason |-> Reason("External temperature sensor unavailable", Null)], t)
    ELSE LET deviation == params.currentTemp - params.targetTemp
             halfDeadband == deadband \div 2
             desiredState == _determineDesiredState(currentState, deviation,
                                 halfDeadband, params.seasonMode, params.forecast)
         IN  IF desiredState # currentState
             THEN IF ~_canTransitionTo(currentState, timers, t, desiredState)
                  THEN Stay([action |-> NullAction,
                             reason |-> Reason("Transition blocked by anti-oscillation timer", Null)])
                  ELSE _transitionTo(desiredState,
                           [action |-> _getActionForState(desiredState, params.predictedSetpoint),
                            reason |-> _getReasonForTransition(currentState, desiredState, deviation)], t)
             ELSE Stay([action |-> _getActionForState(currentState, params.predictedSetpoint),
                        reason |-> Reason("Maintaining current state", Null)])

\* Mutant: while the AC reports power off the machine keeps its state.
processUpdate_IdleWhileOff(params, t) ==
    IF /\ params.currentTemp # Null
       /\ "acPowerState" \in DOMAIN params
       /\ ~params.acPowerState
    THEN Stay([action |-> NullAction,
               reason |-> Reason("Maintaining current state", Null)])
    ELSE
         IF params.currentTemp = Null
         THEN _transitionTo(SENSOR_FAULT,
                  [action |-> NullAction,
                   reason |-> Reason("External temperature sensor unavailable", Null)], t)
         ELSE LET deviation == params.currentTemp - params.targetTemp
                     halfDeadband == deadband \div 2
                     desiredState == _determineDesiredState(currentState, deviation,
                                         halfDeadband, params.seasonMode, params.forecast)
                 IN  IF desiredState # currentState
                     THEN IF ~_canTransitionTo(currentState, timers, t, desiredState)
                          THEN Stay([action |-> NullAction,
                                     reason |-> Reason("Transition blocked by anti-oscillation timer", Null)])
                          ELSE _transitionTo(desiredState,
                                   [action |-> _getActionForState(desiredState, params.predictedSetpoint),
                                    reason |-> _getReasonForTransition(currentState, desiredState, deviation)], t)
                     ELSE Stay([action |-> NullAction,
                                reason |-> Reason("Maintaining current state", Null)])

processUpdate(params, t) ==
    IF params.currentTemp = Null
    THEN _transitionTo(SENSOR_FAULT,
             [action |-> NullAction,
              reason |-> Reason("External temperature sensor unavailable", Null)], t)
    ELSE LET deviation == params.currentTemp - params.targetTemp
                halfDeadband == deadband \div 2
                desiredState == _determineDesiredState(currentState, deviation,
                                    halfDeadband, params.seasonMode, params.forecast)
            IN  IF desiredState # currentState
                THEN IF ~_canTransitionTo(currentState, timers, t, desiredState)
                     THEN Stay([action |-> NullAction,
                                reason |-> Reason("Transition blocked by anti-oscillation timer", Null)])
                     ELSE _transitionTo(desiredState,
                              [action |-> _getActionForState(desiredState, params.predictedSetpoint),
                               reason |-> _getReasonForTransition(currentState, desiredState, deviation)], t)
                ELSE Stay([action |-> NullAction,
                           reason |-> Reason("Maintaining current state", Null)])

(***************************************************************************)
(* The state machine driven directly, as its unit tests drive it.          *)
(***************************************************************************)
NoResult == [state |-> STANDBY, action |-> NullAction, reason |-> Reason("none", Null)]

\* new StateMachine(device)
SMInit(histLen) ==
    /\ currentState = STANDBY
    /\ stateEnteredAt = now
    /\ timers = [lastOnTime |-> Null, lastOffTime |-> Null, lastModeSwitch |-> Null]
    /\ stateHistory = << >>
    /\ maxHistoryLength = histLen
    /\ result = NoResult

\* No AC snapshot has arrived: deviceData?.Device?.RoomTemperature is
\* undefined, which the handlers treat as null.
NoDeviceData == [RoomTemperature |-> Null, SetTemperature |-> Null]

\* WeatherClient.forecast being null.
NullForecast == [fetchTime |-> Null, hourly |-> << >>]

\* new WeatherClient(device).
NoWeather == [forecast |-> NullForecast, lastFetchTime |-> Null, isAvailable |-> FALSE]

\* new WeatherClient(device) and the fields of new ShellyCloud(config) beside
\* temperature and isAvailable; no call is under way.
ClientFields ==
    /\ weather = NoWeather
    /\ humidity = Null
    /\ lastRequestTime = 0
    /\ waiting = << >>
    /\ inflight = 0
    /\ requests = << >>

\* The poll timer of the external sensor is not armed.
ClientsConstructed ==
    /\ ClientFields
    /\ poll = [interval |-> Null, next |-> Null]

\* this.accessoryState = {}: every field reads as undefined.
NoAccessoryState == [operationMode |-> Null, targetOperationMode |-> Null]

\* No snapshot has been parsed and nothing has been written through the
\* accessory.
AccessoryInit ==
    /\ accessoryState = NoAccessoryState
    /\ writes = << >>

\* new DeviceAta(...): the fields of the device, of its ActionExecutor and of
\* the ShellyCloud client.
DeviceFields ==
    /\ roomCurrentTemp = Null
    /\ externalTemperature = Null
    /\ shelly = [temperature |-> Null, isAvailable |-> FALSE]
    /\ lastActionTime = Null
    /\ sends = << >>
    /\ temperatureOffset = 0
    /\ deviceData = NoDeviceData
    /\ userTargetTemperature = Null
    /\ lastCompensatedTarget = Null
    /\ reapplySends = << >>

DeviceInit ==
    /\ DeviceFields
    /\ ClientsConstructed
    /\ AccessoryInit

\* No pure function has been called.
NoCall ==
    /\ args = [fn |-> "none"]
    /\ ret = Null

\* new PredictiveController(device), device.targetTemperature being base.
ControllerConstructed(base) ==
    /\ targetTemperature = (IF Truthy(base) THEN base ELSE DEFAULT_TARGET_TEMP)
    /\ userComfortPreference = Null

Init ==
    /\ now = StartTime
    /\ SMInit(HistoryKept)
    /\ DeviceInit
    /\ NoCall
    /\ ControllerConstructed(DEFAULT_TARGET_TEMP)

\* Date.now() moves on between calls.
Advance ==
    /\ now + TickStep <= MaxTime
    /\ now' = now + TickStep
    /\ UNCHANGED <<accVars, cliVars, smVars, devVars, callVars, ctlVars, offsetVars>>

ProcessUpdate ==
    \E params \in Params :
        /\ processUpdate(params, now)
        /\ UNCHANGED <<accVars, cliVars, now, devVars, callVars, ctlVars, offsetVars>>

Next == Advance \/ ProcessUpdate

Spec == Init /\ [][Next]_vars

(***************************************************************************)
(* Manual override and reset of the state machine.                         *)
(***************************************************************************)
\* forceState's default reason.
ManualOverride == Reason("Manual override", Null)

\* Mutant: a forced transition is subject to the timers.
forceState_Guarded(state, reason, t) ==
    IF _canTransitionTo(currentState, timers, t, state)
    THEN _transitionTo(state, [action |-> NullAction, reason |-> reason], t)
    ELSE Stay([action |-> NullAction, reason |-> reason])

\* forceState(state, reason): _transitionTo without _canTransitionTo, the
\* action of the result being null.
forceState(state, reason, t) ==
    _transitionTo(state, [action |-> NullAction, reason |-> reason], t)

\* Mutant: reset leaves the timers running.
reset_KeepsTimers(t) ==
    /\ currentState' = STANDBY
    /\ stateEnteredAt' = t
    /\ UNCHANGED <<timers, stateHistory, maxHistoryLength, result>>

\* reset(): STANDBY, stateEnteredAt = Date.now(), the three timers null; the
\* history is not touched and nothing is returned.
reset(t) ==
    /\ currentState' = STANDBY
    /\ stateEnteredAt' = t
    /\ timers' = [lastOnTime |-> Null, lastOffTime |-> Null, lastModeSwitch |-> Null]
    /\ UNCHANGED <<stateHistory, maxHistoryLength, result>>

\* The history ring as the constructor sizes it.  A driver alternates forced
\* transitions between HEATING_ACTIVE and STANDBY (as the test 'limits history
\* to maxHistoryLength' does), the clock moving on by HistoryTick before each
\* of them, and processUpdate is called in between.
HistoryInit ==
    /\ now = StartTime
    /\ SMInit(DefaultMaxHistoryLength)
    /\ DeviceInit
    /\ NoCall
    /\ ControllerConstructed(DEFAULT_TARGET_TEMP)

HistoryParams ==
    [currentTemp : {200}, targetTemp : TargetTemps, predictedSetpoint : {245},
     seasonMode : {WINTER}, forecast : {NoForecast}]

ForceStateLater ==
    /\ now + HistoryTick <= StartTime + HistoryRun
    /\ now' = now + HistoryTick
    /\ \E state \in {HEATING_ACTIVE, STANDBY} \ {currentState} :
           forceState(state, ManualOverride, now')
    /\ UNCHANGED <<accVars, cliVars, devVars, callVars, ctlVars, offsetVars>>

ProcessUpdateHistory ==
    \E params \in HistoryParams :
        /\ processUpdate(params, now)
        /\ UNCHANGED <<accVars, cliVars, now, devVars, callVars, ctlVars, offsetVars>>

HistoryNext == ForceStateLater \/ ProcessUpdateHistory

HistorySpec == HistoryInit /\ [][HistoryNext]_vars

\* Overrides and resets between ordinary updates.
OverrideInit ==
    /\ now = StartTime
    /\ SMInit(OverrideHistoryKept)
    /\ DeviceInit
    /\ NoCall
    /\ ControllerConstructed(DEFAULT_TARGET_TEMP)

OverrideParams ==
    [currentTemp : {200, 260, Null}, targetTemp : TargetTemps,
     predictedSetpoint : {245}, seasonMode : {WINTER}, forecast : {NoForecast}]

AdvanceOverride ==
    /\ now + TickStep <= OverrideMaxTime
    /\ now' = now + TickStep
    /\ UNCHANGED <<accVars, cliVars, smVars, devVars, callVars, ctlVars, offsetVars>>

ProcessUpdateOverride ==
    \E params \in OverrideParams :
        /\ processUpdate(params, now)
        /\ UNCHANGED <<accVars, cliVars, now, devVars, callVars, ctlVars, offsetVars>>

ForceState ==
    \E state \in States :
        /\ forceState(state, ManualOverride, now)
        /\ UNCHANGED <<accVars, cliVars, now, devVars, callVars, ctlVars, offsetVars>>

Reset ==
    /\ reset(now)
    /\ UNCHANGED <<accVars, cliVars, now, devVars, callVars, ctlVars, offsetVars>>

OverrideNext == AdvanceOverride \/ ProcessUpdateOverride \/ ForceState \/ Reset

OverrideSpec == OverrideInit /\ [][OverrideNext]_vars

(***************************************************************************)
(* ExternalSensor.getCompensatedTargetTemperature (deviceata/              *)
(* external-sensor.js), on a device that has an external sensor.           *)
(***************************************************************************)
\* The device is configured with an external sensor (ExternalSensor.init
\* creates the Shelly client only then); compensation is always enabled.
externalSensorEnabled == TRUE
compensationEnabled == TRUE
\* DeviceAta.hysteresis, 0.5 degrees.
d_hysteresis == 5
\* accessoryState.minTempCoolDryAuto and maxTempHeat when the AC names none.
minTempCoolDryAuto == 160
maxTempHeat == 310

\* Math.max(lo, Math.min(hi, x))
Clamp(lo, hi, x) == IF x > hi THEN (IF hi < lo THEN lo ELSE hi)
                    ELSE IF x < lo THEN lo ELSE x

Abs(x) == IF x < 0 THEN -x ELSE x

\* Math.round(x * 2) / 2, x in tenths: quarters round upwards.
RoundToHalfDegree(x) == ((2 * x + 5) \div 10) * 5

\* getCompensatedTargetTemperature on a device whose temperatureOffset is
\* offset and whose externalTemperature is external.
Compensated(userTarget, offset, external) ==
    IF ~compensationEnabled \/ ~externalSensorEnabled THEN userTarget
    ELSE IF external = Null \/ Abs(offset) < d_hysteresis
    THEN userTarget
    ELSE LET compensated == userTarget + offset
             clamped == Clamp(minTempCoolDryAuto, maxTempHeat, compensated)
         IN  RoundToHalfDegree(clamped)

getCompensatedTargetTemperature(userTarget) ==
    Compensated(userTarget, temperatureOffset, externalTemperature)

\* ExternalSensor.updateTemperatureOffset once externalTemperature is
\* external: the offset it leaves.
OffsetAfterUpdate(external) ==
    IF ~externalSensorEnabled \/ external = Null THEN 0
    ELSE IF deviceData.RoomTemperature = Null THEN temperatureOffset
    ELSE deviceData.RoomTemperature - external

\* ExternalSensor.updateTemperatureOffset calls reapplyCompensation, and
\* reapplyCompensation sends newCompensated to the AC.
Reapplies(external, newCompensated) ==
    /\ externalSensorEnabled /\ external # Null
    /\ deviceData.RoomTemperature # Null
    /\ Abs(OffsetAfterUpdate(external) - temperatureOffset) > 3
    /\ compensationEnabled /\ userTargetTemperature # Null
    /\ ~(lastCompensatedTarget # Null
         /\ Abs(newCompensated - lastCompensatedTarget) < 5)

\* ExternalSensor.updateTemperatureOffset, with reapplyCompensation up to its
\* awaited send.
updateTemperatureOffset(external) ==
    LET newCompensated ==
            Compensated(userTargetTemperature, OffsetAfterUpdate(external), external)
    IN  /\ temperatureOffset' = OffsetAfterUpdate(external)
        /\ IF Reapplies(external, newCompensated)
           THEN /\ lastCompensatedTarget' = newCompensated
                /\ reapplySends' = Append(reapplySends,
                                          [at |-> now, setpoint |-> newCompensated])
                /\ deviceData' = [deviceData EXCEPT !.SetTemperature = newCompensated]
           ELSE UNCHANGED <<lastCompensatedTarget, deviceData, reapplySends>>
        /\ UNCHANGED userTargetTemperature


(***************************************************************************)
(* The device: the deviceState handler of DeviceAta, the ActionExecutor    *)
(* and the Shelly sensor client with the handlers ExternalSensor.init      *)
(* attaches to it.                                                         *)
(***************************************************************************)
\* A melCloudAta.send call: the time executeAction read, the action, the
\* state and the params of the tick that produced it, and how the call ended.
\* The effective flags _executeSetMode and _executeCoast pass to
\* melCloudAta.send: the fields of deviceData the command applies.
EffectiveFlags(action) ==
    IF action.type = "setMode" THEN "PowerOperationModeSetTemperature"
    ELSE "SetTemperature"

Send(at, action, state, params, outcome) ==
    [at |-> at, action |-> action, state |-> state, params |-> params,
     flags |-> EffectiveFlags(action), outcome |-> outcome]

\* ActionExecutor.executeAction up to the awaited send, on the stateResult
\* the state machine returns in this step; the handler calls it only when
\* stateResult.action is set.
sendsAfter(stateResult, params) ==
    IF stateResult.action = NullAction THEN sends
    ELSE IF Truthy(lastActionTime) /\ now - lastActionTime < minActionInterval
         THEN sends
    ELSE Append(sends, Send(now, stateResult.action, stateResult.state,
                            params, "pending"))

executeAction(stateResult, params) ==
    /\ sends' = sendsAfter(stateResult, params)
    /\ UNCHANGED lastActionTime

\* PredictiveController.processStateUpdate: the room temperature is
\* device.roomCurrentTemp; the setpoint, the season and the forecast come
\* from the setpoint calculator, the accessory state and the weather client.
processStateUpdate(params) ==
    /\ params.currentTemp = roomCurrentTemp
    /\ processUpdate(params, now)

\* The deviceState handler up to the state machine, for the snapshot it is
\* called with: deviceData, the offset and the user target.
storeSnapshot(snapshot) ==
    /\ temperatureOffset' =
          IF roomCurrentTemp # Null /\ snapshot.RoomTemperature # Null
          THEN snapshot.RoomTemperature - roomCurrentTemp
          ELSE temperatureOffset
    /\ userTargetTemperature' =
          IF userTargetTemperature = Null /\ snapshot.SetTemperature # Null
          THEN snapshot.SetTemperature
          ELSE userTargetTemperature
    /\ UNCHANGED <<lastCompensatedTarget, reapplySends>>

\* _executeSetMode and _executeCoast write the compensated setpoint of the
\* action they send into deviceData.
dataAfterAction(snapshot, stateResult) ==
    IF stateResult.action = NullAction
       \/ (Truthy(lastActionTime) /\ now - lastActionTime < minActionInterval)
    THEN snapshot
    ELSE [snapshot EXCEPT !.SetTemperature =
             Compensated(stateResult.action.setpoint, temperatureOffset',
                         externalTemperature)]

\* The snapshots the AC client delivers.
Snapshots == {[RoomTemperature |-> 202, SetTemperature |-> 230]}

\* The deviceState handler for one tick whose inputs are params.
deviceState(params) ==
    /\ Len(sends) < MaxSends
    /\ \E snapshot \in Snapshots :
          /\ storeSnapshot(snapshot)
          /\ processStateUpdate(params)
          /\ executeAction(result', params)
          /\ deviceData' = dataAfterAction(snapshot, result')
    /\ UNCHANGED <<accVars, cliVars, now, roomCurrentTemp, externalTemperature, shelly, callVars, ctlVars>>

\* The inputs of a tick of the device.
DeviceParams ==
    {p \in Params : p.forecast \in DeviceForecasts}

DeviceState == \E params \in DeviceParams : deviceState(params)

\* The awaited send resolves: executeAction resumes and records the time it
\* read before the send.
SendOk ==
    \E i \in 1..Len(sends) :
        /\ sends[i].outcome = "pending"
        /\ sends' = [sends EXCEPT ![i].outcome = "ok"]
        /\ lastActionTime' = sends[i].at
        /\ UNCHANGED <<accVars, cliVars, now, smVars, callVars, ctlVars, offsetVars, roomCurrentTemp, externalTemperature, shelly>>

\* Mutant: the catch block records the time of the failed action.
SendFail_RecordsTime ==
    \E i \in 1..Len(sends) :
        /\ sends[i].outcome = "pending"
        /\ sends' = [sends EXCEPT ![i].outcome = "failed"]
        /\ lastActionTime' = sends[i].at
        /\ UNCHANGED <<accVars, cliVars, now, smVars, callVars, ctlVars, offsetVars, roomCurrentTemp, externalTemperature, shelly>>

\* The awaited send rejects: executeAction logs the error.
SendFail ==
    \E i \in 1..Len(sends) :
        /\ sends[i].outcome = "pending"
        /\ sends' = [sends EXCEPT ![i].outcome = "failed"]
        /\ UNCHANGED <<accVars, cliVars, now, smVars, callVars, ctlVars, offsetVars, roomCurrentTemp, externalTemperature, shelly,
                       lastActionTime>>

\* ShellyCloud.fetchTemperature succeeds and emits 'temperature'; the handler
\* ExternalSensor.init attaches stores the reading in externalTemperature
\* and calls updateTemperatureOffset.
FetchOk ==
    \E temp \in SensorTemps :
        /\ shelly' = [temperature |-> temp, isAvailable |-> TRUE]
        /\ externalTemperature' = temp
        /\ updateTemperatureOffset(temp)
        /\ UNCHANGED <<accVars, cliVars, now, smVars, callVars, ctlVars, roomCurrentTemp, lastActionTime, sends>>

\* ShellyCloud.fetchTemperature fails and emits 'unavailable'; the handler
\* ExternalSensor.init attaches only logs.
FetchFail ==
    /\ shelly' = [shelly EXCEPT !.isAvailable = FALSE]
    /\ UNCHANGED <<accVars, cliVars, now, smVars, callVars, ctlVars, offsetVars, roomCurrentTemp, externalTemperature,
                   lastActionTime, sends>>

\* device.roomCurrentTemp is assigned by the owner of the device object: the
\* constructor sets it to null, processStateUpdate reads it, and neither the
\* sensor handlers nor the deviceState handler write it.
SetRoomCurrentTemp ==
    \E temp \in DeviceRoomTemps \cup {Null} :
        /\ temp # roomCurrentTemp
        /\ roomCurrentTemp' = temp
        /\ UNCHANGED <<accVars, cliVars, now, smVars, callVars, ctlVars, offsetVars, externalTemperature, shelly, lastActionTime,
                       sends>>

\* Date.now() moves on between the events of the device.
Wait ==
    /\ now + PollStep <= DeviceMaxTime
    /\ now' = now + PollStep
    /\ UNCHANGED <<accVars, cliVars, smVars, devVars, callVars, ctlVars, offsetVars>>

DeviceNext ==
    \/ Wait
    \/ SetRoomCurrentTemp
    \/ FetchOk
    \/ FetchFail
    \/ DeviceState
    \/ SendOk
    \/ SendFail

DeviceSpec == Init /\ [][DeviceNext]_vars

(***************************************************************************)
(* The desired state as a function of its inputs.  processUpdate computes  *)
(* the deviation and half the dead band and calls _determineDesiredState   *)
(* in the current state; here the current state is an input as well, and   *)
(* the room temperatures include the edges of the dead band and of the     *)
(* coasting window.                                                        *)
(***************************************************************************)
DesiredRoomTemps == {200, 209, 210, 211, 224, 225, 226, 234, 235, 236, 249, 250, 251, 260}

DetermineDesiredState ==
    \E cur \in States, currentTemp \in DesiredRoomTemps, targetTemp \in TargetTemps,
       seasonMode \in SeasonMode, forecast \in Forecasts :
        /\ args' = [fn |-> "_determineDesiredState", currentState |-> cur,
                    deviation |-> currentTemp - targetTemp,
                    seasonMode |-> seasonMode, forecast |-> forecast]
        /\ ret' = _determineDesiredState(cur, currentTemp - targetTemp,
                                         deadband \div 2, seasonMode, forecast)
        /\ UNCHANGED <<accVars, cliVars, now, smVars, devVars, ctlVars, offsetVars>>

DesiredSpec == Init /\ [][DetermineDesiredState]_vars

(***************************************************************************)
(* The state machine driven with forecasts at the edges of the detectors'  *)
(* conditions.                                                             *)
(***************************************************************************)
AnticipationRoomTemps == {200, 260}

AnticipationParams ==
    [currentTemp : AnticipationRoomTemps, targetTemp : TargetTemps,
     predictedSetpoint : {220}, seasonMode : SeasonMode, forecast : AllForecasts]

ProcessUpdateAnticipation ==
    \E params \in AnticipationParams :
        /\ processUpdate(params, now)
        /\ UNCHANGED <<accVars, cliVars, now, devVars, callVars, ctlVars, offsetVars>>

AnticipationNext == Advance \/ ProcessUpdateAnticipation

AnticipationSpec == Init /\ [][AnticipationNext]_vars

(***************************************************************************)
(* SetpointCalculator (predictive/setpoint-calculator.js).  Inputs are in  *)
(* tenths of a degree (solar radiation in W/m2); the layers and the        *)
(* predicted room target are in thousandths of a degree, which holds every *)
(* product of an input with the gains 0.4, 0.3 and 0.02 exactly.  The      *)
(* weights exp(-i / 6) of the forecast layer are kept to four decimals.    *)
(***************************************************************************)
OUTDOOR_RESET_SLOPE == 4
FORECAST_HORIZON == 24
SOLAR_REDUCTION_THRESHOLD == 200

\* null in arithmetic and in Math.min counts as 0.
Num(x) == IF x = Null THEN 0 ELSE x

\* 10000 * Math.exp(-i / this.decayConstant) for i = 0..23, decayConstant 6.
ExpWeight ==
    <<10000, 8465, 7165, 6065, 5134, 4346, 3679, 3114, 2636, 2231, 1889, 1599,
      1353, 1146, 970, 821, 695, 588, 498, 421, 357, 302, 256, 216>>

RECURSIVE WeightedSum(_, _)
WeightedSum(temps, n) ==
    IF n = 0 THEN 0
    ELSE WeightedSum(temps, n - 1) + Num(temps[n]) * ExpWeight[n]

RECURSIVE TotalWeight(_)
TotalWeight(n) == IF n = 0 THEN 0 ELSE TotalWeight(n - 1) + ExpWeight[n]

RECURSIVE SeqSum(_)
SeqSum(q) == IF Len(q) = 0 THEN 0 ELSE Num(Head(q)) + SeqSum(Tail(q))

_calculateOutdoorResetCurve(outdoorTemp, seasonMode) ==
    LET designOutdoorTemp == IF seasonMode = WINTER THEN 100 ELSE 250
        tempDiff == designOutdoorTemp - Num(outdoorTemp)
        offset == OUTDOOR_RESET_SLOPE * tempDiff * 10
    IN  Clamp(-2000, 2000, offset)

_calculateForecastAdjustment(forecastTemps, currentOutdoorTemp, seasonMode) ==
    IF Len(forecastTemps) = 0 \/ currentOutdoorTemp = Null THEN 0
    ELSE LET n == IF Len(forecastTemps) < FORECAST_HORIZON
                  THEN Len(forecastTemps) ELSE FORECAST_HORIZON
             weightedSum == WeightedSum(forecastTemps, n)
             totalWeight == TotalWeight(n)
             \* 0.3 * (weightedSum / totalWeight - currentOutdoorTemp)
             adjustment == (30 * (weightedSum - currentOutdoorTemp * totalWeight))
                               \div totalWeight
         IN  Clamp(-1000, 1000,
                   IF seasonMode = WINTER THEN -adjustment ELSE adjustment)

_calculateSolarGainOffset(forecastSolar) ==
    LET next6Hours == Slice(forecastSolar, 6) IN
    IF Len(next6Hours) = 0 THEN 0
    ELSE IF SeqSum(next6Hours) > SOLAR_REDUCTION_THRESHOLD * Len(next6Hours)
    THEN LET reduction == (20 * SeqSum(next6Hours)) \div Len(next6Hours)
                              - 20 * SOLAR_REDUCTION_THRESHOLD
         IN  IF -reduction < -2000 THEN -2000 ELSE -reduction
    ELSE 0

_calculateErrorCorrection(targetTemp, currentTemp) ==
    LET error == targetTemp - currentTemp
        correction == 30 * error
    IN  Clamp(-1000, 1000, correction)

_calculateColdWeatherBoost(outdoorTemp, forecastTemps) ==
    LET base == IF outdoorTemp < -50 THEN 3
                ELSE IF outdoorTemp < 0 THEN 2
                ELSE IF outdoorTemp < 50 THEN 1
                ELSE 0
        boost == IF Len(forecastTemps) > 0
                 THEN LET first24 == Slice(forecastTemps, 24)
                          minForecast == SeqMin([i \in 1..Len(first24) |-> Num(first24[i])])
                      IN  IF minForecast < -50 /\ base < 3
                          THEN (IF base > 2 THEN base ELSE 2)
                          ELSE IF minForecast < 0 /\ base < 2
                          THEN (IF base > 1 THEN base ELSE 1)
                          ELSE base
                 ELSE base
    IN  boost * 1000

\* The sum of the base and the five layers.
LayerSum(params) ==
    LET season == params.seasonMode
        outdoor == params.currentOutdoorTemp
    IN  params.userComfortTarget * 100
        + (IF outdoor # Null
           THEN _calculateOutdoorResetCurve(outdoor, season) ELSE 0)
        + (IF Len(params.forecastTemps) > 0
           THEN _calculateForecastAdjustment(params.forecastTemps, outdoor, season)
           ELSE 0)
        + (IF season = WINTER /\ Len(params.forecastSolar) > 0
           THEN _calculateSolarGainOffset(params.forecastSolar) ELSE 0)
        + (IF params.currentIndoorTemp # Null
           THEN _calculateErrorCorrection(params.userComfortTarget,
                                          params.currentIndoorTemp)
           ELSE 0)
        + (IF season = WINTER /\ outdoor # Null
           THEN _calculateColdWeatherBoost(outdoor, params.forecastTemps) ELSE 0)

\* The season-specific limits around the user's comfort target.
SeasonClamp(params, predictedRoomTarget) ==
    LET season == params.seasonMode
        userComfortTarget == params.userComfortTarget * 100
        maxPositiveDeviation ==
            IF /\ season = WINTER /\ params.currentOutdoorTemp # Null
               /\ params.currentOutdoorTemp < 0
            THEN 4000 ELSE 2000
        maxNegativeDeviation == 2000
    IN  IF season = WINTER
           /\ predictedRoomTarget < userComfortTarget - maxNegativeDeviation
        THEN userComfortTarget - maxNegativeDeviation
        ELSE IF season = WINTER
                /\ predictedRoomTarget > userComfortTarget + maxPositiveDeviation
        THEN userComfortTarget + maxPositiveDeviation
        ELSE IF season = SUMMER
                /\ predictedRoomTarget > userComfortTarget + maxPositiveDeviation
        THEN userComfortTarget + maxPositiveDeviation
        ELSE predictedRoomTarget

\* Math.round(x * 2) / 2, x in thousandths: halves round upwards.
RoundToHalf(x) == ((2 * x + 500) \div 1000) * 500

\* Mutant: the result is not rounded to 0.5 degree steps.
calculateSetpoint_NotRounded(params) ==
    Clamp(16000, 30000, SeasonClamp(params, LayerSum(params)))

\* predictedRoomTarget of calculateSetpoint(params).
calculateSetpoint(params) ==
    RoundToHalf(Clamp(16000, 30000, SeasonClamp(params, LayerSum(params))))

UserComfortTargets == {140, 200, 230, 233, 260, 350}
IndoorTemps == {Null, 200, 230, 270}
OutdoorTemps == {Null, -100, -10, 0, 100, 250, 350}
ForecastTempArrays ==
    {<< >>, [i \in 1..24 |-> -100], [i \in 1..24 |-> 350],
     [i \in 1..30 |-> 100 + 10 * i]}
ForecastSolarArrays ==
    {<< >>, <<50>>, [i \in 1..6 |-> 400], <<0, 1200>>}

CalculatorParams ==
    [userComfortTarget : UserComfortTargets, currentIndoorTemp : IndoorTemps,
     currentOutdoorTemp : OutdoorTemps, forecastTemps : ForecastTempArrays,
     forecastSolar : ForecastSolarArrays, seasonMode : SeasonMode]

\* One call, from the state after construction.
CalculateSetpoint ==
    \E params \in CalculatorParams :
        /\ args = [fn |-> "none"]
        /\ args' = [fn |-> "calculateSetpoint", params |-> params]
        /\ ret' = calculateSetpoint(params)
        /\ UNCHANGED <<accVars, cliVars, now, smVars, devVars, ctlVars, offsetVars>>

CalculatorSpec == Init /\ [][CalculateSetpoint]_vars

(***************************************************************************)
(* PredictiveController: the user's comfort preference (predictive/        *)
(* index.js).                                                              *)
(***************************************************************************)

getComfortRange ==
    [min |-> targetTemperature - COMFORT_BAND,
     max |-> targetTemperature + COMFORT_BAND,
     target |-> targetTemperature]

\* Mutant: the preference is stored as written.
setUserComfortPreference_Unclamped(temperature) ==
    temperature

\* The value setUserComfortPreference stores and returns.
setUserComfortPreference(temperature) ==
    LET range == getComfortRange
    IN  Clamp(range.min, range.max, temperature)

\* this.userComfortPreference || this.targetTemperature: the comfort target
\* calculateSetpoint and processStateUpdate pass on.
getUserComfortPreference ==
    IF Truthy(userComfortPreference) THEN userComfortPreference
    ELSE targetTemperature

\* The targets a device is configured with (0 stands for none), and the
\* temperatures written to the target characteristic: every half degree
\* from 0 to 35.
BaseTargets == {0, 20, 200, 230}
MaxWrite == 70
UserWrites == {5 * k : k \in 0..MaxWrite}

ControllerInit ==
    /\ now = StartTime
    /\ SMInit(HistoryKept)
    /\ DeviceInit
    /\ NoCall
    /\ \E base \in BaseTargets : ControllerConstructed(base)

\* PredictiveController.init
InitController ==
    /\ args.fn = "none"
    /\ userComfortPreference' = targetTemperature
    /\ args' = [fn |-> "init"]
    /\ UNCHANGED <<accVars, cliVars, now, smVars, devVars, offsetVars, ret, targetTemperature>>

\* A write of the target temperature: the characteristic's onSet handler
\* calls getPredictiveSetpoint(value), which begins with
\* setUserComfortPreference(value).
SetUserComfortPreference ==
    \E temperature \in UserWrites :
        /\ userComfortPreference' = setUserComfortPreference(temperature)
        /\ ret' = userComfortPreference'
        /\ args' = [fn |-> "setUserComfortPreference", temperature |-> temperature]
        /\ UNCHANGED <<accVars, cliVars, now, smVars, devVars, offsetVars, targetTemperature>>

ControllerNext == InitController \/ SetUserComfortPreference

ControllerSpec == ControllerInit /\ [][ControllerNext]_vars

(***************************************************************************)
(* getCompensatedTargetTemperature as a function of the device it is       *)
(* called on.                                                              *)
(***************************************************************************)
\* The offsets the device can hold, the states of the Shelly client and the
\* targets the function is called with.
Offsets == {-58, -13, -8, -5, -4, -3, -2, 0, 2, 3, 4, 5, 8, 19, 30}
ShellyStates ==
    {[temperature |-> Null, isAvailable |-> FALSE],
     [temperature |-> 215, isAvailable |-> TRUE],
     [temperature |-> 215, isAvailable |-> FALSE]}
CompensationTargets == {160, 200, 225, 230, 300, 310}

\* A device that has received sensor readings and AC snapshots.
CompensationInit ==
    /\ now = StartTime
    /\ SMInit(HistoryKept)
    /\ roomCurrentTemp = Null
    /\ shelly \in ShellyStates
    /\ externalTemperature = shelly.temperature
    /\ lastActionTime = Null
    /\ sends = << >>
    /\ NoCall
    /\ ControllerConstructed(DEFAULT_TARGET_TEMP)
    /\ temperatureOffset \in Offsets
    /\ deviceData = NoDeviceData
    /\ userTargetTemperature = Null
    /\ lastCompensatedTarget = Null
    /\ reapplySends = << >>
    /\ ClientsConstructed
    /\ AccessoryInit

\* One call, from the state the device is in.
GetCompensatedTargetTemperature ==
    \E userTarget \in CompensationTargets :
        /\ args = [fn |-> "none"]
        /\ args' = [fn |-> "getCompensatedTargetTemperature",
                    userTarget |-> userTarget]
        /\ ret' = getCompensatedTargetTemperature(userTarget)
        /\ UNCHANGED <<accVars, cliVars, now, smVars, devVars, ctlVars, offsetVars>>

CompensationSpec == CompensationInit /\ [][GetCompensatedTargetTemperature]_vars

(***************************************************************************)
(* Properties of the state machine.                                        *)
(***************************************************************************)
NonNullParams == {p \in Params : p.currentTemp # Null}
NullParams == {p \in Params : p.currentTemp = Null}

DesiredOf(p) ==
    _determineDesiredState(currentState, p.currentTemp - p.targetTemp,
                           deadband \div 2, p.seasonMode, p.forecast)

LastEntry == stateHistory[Len(stateHistory)]

\* C1: a processUpdate call whose currentTemp is null ends in SENSOR_FAULT
\* and returns action null, whatever the state and the timers were.
C1_NullTempEntersSensorFault ==
    [][\A p \in NullParams :
          processUpdate(p, now) =>
              /\ currentState' = SENSOR_FAULT
              /\ result'.state = SENSOR_FAULT
              /\ result'.action = NullAction]_vars

\* The null reading took the machine out of HEATING_ACTIVE while MIN_ON
\* was still running.
C1_Witness ==
    /\ currentState = SENSOR_FAULT
    /\ result.reason.text = "External temperature sensor unavailable"
    /\ result.action = NullAction
    /\ Len(stateHistory) > 0
    /\ LastEntry.from = HEATING_ACTIVE
    /\ LastEntry.timestamp = now
    /\ timers.lastOnTime # Null
    /\ now - timers.lastOnTime < minOnTime

Blocked == Reason("Transition blocked by anti-oscillation timer", Null)

\* The reason processUpdate returns on the null-reading path, and on no other.
SensorUnavailable == Reason("External temperature sensor unavailable", Null)

\* C2: a processUpdate call with a room temperature leaves an active state
\* for a non-active one only when MIN_ON has passed since lastOnTime;
\* lastOnTime is the time of the last entry into an active state from a
\* non-active one; a would-be exit before that keeps the state and returns
\* action null with the reason "Transition blocked by anti-oscillation timer"
\* (a step from an active state inside MIN_ON either has that outcome or is
\* no call whose desired state is non-active).
C2_MinOnBeforeLeavingActive ==
    [][/\ timers'.lastOnTime =
             IF ~_isActiveState(currentState) /\ _isActiveState(currentState')
             THEN now' ELSE timers.lastOnTime
       /\ (/\ _isActiveState(currentState) /\ ~_isActiveState(currentState')
           /\ result'.reason # SensorUnavailable)
             => /\ timers.lastOnTime # Null
                /\ now' - timers.lastOnTime >= minOnTime
       /\ (/\ _isActiveState(currentState)
           /\ now - timers.lastOnTime < minOnTime)
             => \/ /\ currentState' = currentState
                   /\ result'.action = NullAction
                   /\ result'.reason = Blocked
                \/ \A p \in NonNullParams :
                      ~(~_isActiveState(DesiredOf(p)) /\ processUpdate(p, now))]_vars

\* HEATING_ACTIVE was left for HEATING_COAST once MIN_ON had passed.
C2_Witness ==
    /\ currentState = HEATING_COAST
    /\ Len(stateHistory) > 0
    /\ LastEntry.from = HEATING_ACTIVE
    /\ LastEntry.timestamp - timers.lastOnTime >= minOnTime
    /\ result.action.type = "coast"

\* C3: a processUpdate call enters an active state from a non-active one only
\* when MIN_OFF has passed since lastOffTime; lastOffTime is the time of the
\* last transition out of an active state, the one a null reading forces
\* included.
C3_MinOffBeforeEnteringActive ==
    [][/\ timers'.lastOffTime =
             IF _isActiveState(currentState) /\ ~_isActiveState(currentState')
             THEN now' ELSE timers.lastOffTime
       /\ (~_isActiveState(currentState) /\ _isActiveState(currentState'))
             => \/ timers.lastOffTime = Null
                \/ now' - timers.lastOffTime >= minOffTime]_vars

\* A null reading took the machine out of HEATING_ACTIVE, and an entry into an
\* active state was blocked because MIN_OFF had not passed since then.
C3_Witness ==
    /\ currentState = SENSOR_FAULT
    /\ Len(stateHistory) > 0
    /\ LastEntry.from = HEATING_ACTIVE
    /\ LastEntry.to = SENSOR_FAULT
    /\ timers.lastOffTime = LastEntry.timestamp
    /\ now - timers.lastOffTime < minOffTime
    /\ result.reason = Blocked

Swap(from, to) ==
    \/ _isHeatingState(from) /\ _isCoolingState(to)
    \/ _isCoolingState(from) /\ _isHeatingState(to)

\* C4: a processUpdate call moves the machine directly between the heating
\* family and the cooling family only when MIN_MODE_SWITCH has passed since
\* the previous such swap, and lastModeSwitch is the time of the last swap.
C4_ModeSwitchDelayBetweenSwaps ==
    [][/\ timers'.lastModeSwitch =
             IF Swap(currentState, currentState') THEN now' ELSE timers.lastModeSwitch
       /\ Swap(currentState, currentState')
             => \/ timers.lastModeSwitch = Null
                \/ now' - timers.lastModeSwitch >= minModeSwitch]_vars

\* After a swap into COOLING_ACTIVE, with MIN_ON over, a swap back was blocked
\* because MIN_MODE_SWITCH had not passed.
C4_Witness ==
    /\ currentState = COOLING_ACTIVE
    /\ Len(stateHistory) > 0
    /\ LastEntry.from = HEATING_ACTIVE
    /\ timers.lastModeSwitch = LastEntry.timestamp
    /\ now - timers.lastOnTime >= minOnTime
    /\ now - timers.lastModeSwitch < minModeSwitch
    /\ result.reason = Blocked

\* C5: after heating has ended the machine does not start cooling (enter
\* COOLING_ACTIVE or PRE_COOL) before MIN_MODE_SWITCH has passed since
\* heating ended, and the same for heating after cooling.  Stated for the
\* machine in the coast state it entered when the active state ended:
\* lastOffTime is then the time heating (or cooling) ended.
C5_ModeSwitchDelayAfterHeatingEnded ==
    [][/\ (currentState = HEATING_COAST /\ currentState' \in {COOLING_ACTIVE, PRE_COOL})
             => now' - timers.lastOffTime >= minModeSwitch
       /\ (currentState = COOLING_COAST /\ currentState' \in {HEATING_ACTIVE, PRE_HEAT})
             => now' - timers.lastOffTime >= minModeSwitch]_vars

\* The readings of the sensor recovery scenario: room 22, target 23, winter,
\* no forecast.
RecoveryParams ==
    {p \in NonNullParams :
        /\ p.currentTemp = 220 /\ p.targetTemp = 230
        /\ p.seasonMode = WINTER /\ p.forecast = NoForecast}

\* C9: in SENSOR_FAULT, a processUpdate call with a room temperature takes
\* the machine out of SENSOR_FAULT unless MIN_OFF blocks it; with room 22,
\* target 23, winter and no forecast it enters HEATING_ACTIVE and returns
\* setMode(heat, predictedSetpoint).
C9_SensorRecoveryLeavesFault ==
    [][\A p \in NonNullParams :
          (/\ currentState = SENSOR_FAULT
           /\ processUpdate(p, now)
           /\ \/ timers.lastOffTime = Null
              \/ now - timers.lastOffTime >= minOffTime)
          => /\ currentState' # SENSOR_FAULT
             /\ p \in RecoveryParams
                   => /\ currentState' = HEATING_ACTIVE
                      /\ result'.action = SetModeAction("heat", p.predictedSetpoint)]_vars

\* The action the documentation gives for a state entered.
ActionTable(state, setpoint) ==
    CASE state \in {HEATING_ACTIVE, PRE_HEAT} -> SetModeAction("heat", setpoint)
      [] state \in {COOLING_ACTIVE, PRE_COOL} -> SetModeAction("cool", setpoint)
      [] state \in {STANDBY, HEATING_COAST, COOLING_COAST} -> CoastAction(setpoint)
      [] state = SENSOR_FAULT -> NullAction

Maintaining == Reason("Maintaining current state", Null)

LastSend == sends[Len(sends)]

\* C6: any two commands the ActionExecutor hands to the AC client are at
\* least minActionInterval apart, also when a deviceState event is handled
\* while an earlier send is still awaited.
C6_CommandsMinIntervalApart ==
    \A i, j \in 1..Len(sends) :
        i < j => sends[j].at - sends[i].at >= minActionInterval

\* C7: when the send of the last command failed and the state machine is
\* still in the state that command was for, a tick with the inputs of the
\* tick that produced it hands the command (same type and mode) to the AC
\* client again.
C7_FailedCommandIssuedAgain ==
    [][\A p \in DeviceParams :
          (/\ Len(sends) > 0
           /\ LastSend.outcome = "failed"
           /\ LastSend.state = currentState
           /\ LastSend.params = p
           /\ deviceState(p))
          => /\ Len(sends') = Len(sends) + 1
             /\ sends'[Len(sends')].action.type = LastSend.action.type
             /\ sends'[Len(sends')].action.mode = LastSend.action.mode]_vars

RateLimitOpen ==
    ~(Truthy(lastActionTime) /\ now - lastActionTime < minActionInterval)

\* |a - b| in tenths of a degree.
Dist(a, b) == IF a >= b THEN a - b ELSE b - a

DesiredCalled == args.fn = "_determineDesiredState"

\* The forecast shows the event the season in force anticipates.
Trigger(seasonMode, forecast) ==
    /\ forecast # NoForecast
    /\ \/ seasonMode = WINTER /\ _detectColdSnap(forecast)
       \/ seasonMode = SUMMER /\ _detectHeatwave(forecast)

TemperatureBasedState(cur, dev, seasonMode) ==
    IF seasonMode = WINTER
    THEN CASE dev < -20 -> HEATING_ACTIVE
           [] dev > 20 -> IF cur \in {PRE_HEAT, HEATING_ACTIVE, HEATING_COAST}
                          THEN HEATING_COAST ELSE STANDBY
           [] cur = HEATING_COAST /\ -5 < dev /\ dev <= 20 -> STANDBY
           [] OTHER -> cur
    ELSE CASE dev > 20 -> COOLING_ACTIVE
           [] dev < -20 -> IF cur \in {PRE_COOL, COOLING_ACTIVE, COOLING_COAST}
                           THEN COOLING_COAST ELSE STANDBY
           [] cur = COOLING_COAST /\ -20 <= dev /\ dev < 5 -> STANDBY
           [] OTHER -> cur

Window(temps) == 1..(IF Len(temps) < 48 THEN Len(temps) ELSE 48)

\* At least 24 non-null temperatures, temps[0] - min(temps[0..48]) >= 5 and
\* the first index of that minimum in (12, 36].
ColdSnapAhead(forecast) ==
    /\ forecast # NoForecast
    /\ LET temps == ForecastTemps(forecast) IN
       /\ Len(temps) >= 24
       /\ \E i \in Window(temps) :
            /\ \A j \in Window(temps) : temps[i] <= temps[j]
            /\ \A j \in 1..(i - 1) : temps[j] # temps[i]
            /\ temps[1] - temps[i] >= 50
            /\ 12 < i - 1 /\ i - 1 <= 36

\* At least 24 non-null temperatures and max(temps[0..48]) >= 30.
HeatwaveAhead(forecast) ==
    /\ forecast # NoForecast
    /\ LET temps == ForecastTemps(forecast) IN
       /\ Len(temps) >= 24
       /\ \E i \in Window(temps) : temps[i] >= 300

coldSnapAheadOf == [f \in AllForecasts |-> ColdSnapAhead(f)]
heatwaveAheadOf == [f \in AllForecasts |-> HeatwaveAhead(f)]

HeatingFamily == {PRE_HEAT, HEATING_ACTIVE, HEATING_COAST}
CoolingFamily == {PRE_COOL, COOLING_ACTIVE, COOLING_COAST}

PreHeatConditions(p) ==
    p.seasonMode = WINTER /\ currentState \notin HeatingFamily
        /\ coldSnapAheadOf[p.forecast]
PreCoolConditions(p) ==
    p.seasonMode = SUMMER /\ currentState \notin CoolingFamily
        /\ heatwaveAheadOf[p.forecast]

MinOffPermits ==
    ~(/\ currentState \notin {HEATING_ACTIVE, COOLING_ACTIVE, PRE_HEAT, PRE_COOL}
      /\ timers.lastOffTime # Null /\ now - timers.lastOffTime < minOffTime)
ModeSwitchPermits(family) ==
    ~(/\ currentState \in family
      /\ timers.lastModeSwitch # Null
      /\ now - timers.lastModeSwitch < minModeSwitch)

\* The machine enters PRE_HEAT (PRE_COOL) only by a call made under the
\* conditions of that state.
AnticipationOnlyIf ==
    /\ (now' = now /\ currentState' = PRE_HEAT /\ currentState # PRE_HEAT)
         => \A p \in AnticipationParams :
                processUpdate(p, now) => PreHeatConditions(p)
    /\ (now' = now /\ currentState' = PRE_COOL /\ currentState # PRE_COOL)
         => \A p \in AnticipationParams :
                processUpdate(p, now) => PreCoolConditions(p)

CalculatorCalled == args.fn = "calculateSetpoint"

\* C15: whatever the inputs, predictedRoomTarget is a multiple of 0.5
\* degrees between 16 and 30 degrees.
C15_PredictedTargetInRangeAndHalfStep ==
    CalculatorCalled => /\ ret % 500 = 0
                        /\ 16000 <= ret /\ ret <= 30000

\* A comfort target of 23.3 degrees came out as a multiple of 0.5.
C15_Witness ==
    /\ CalculatorCalled
    /\ args.params.userComfortTarget = 233
    /\ ret \in {23000, 23500}

\* C16: for a comfort target that is a multiple of 0.5 degrees inside the
\* comfort band, predictedRoomTarget is at least the target minus 2 degrees
\* and at most the target plus 2 degrees (plus 4 in winter with an outdoor
\* temperature below zero), in both seasons.
C16_PredictedTargetNearComfortTarget ==
    (/\ CalculatorCalled
     /\ args.params.userComfortTarget % 5 = 0
     /\ args.params.userComfortTarget \in 200..260)
    => LET p == args.params
           upper == IF /\ p.seasonMode = WINTER /\ p.currentOutdoorTemp # Null
                       /\ p.currentOutdoorTemp < 0
                    THEN 4000 ELSE 2000
       IN  /\ p.userComfortTarget * 100 - 2000 <= ret
           /\ ret <= p.userComfortTarget * 100 + upper

CompensationCalled == args.fn = "getCompensatedTargetTemperature"

\* C18: the compensation returns its argument when the sensor is not online
\* or the offset is smaller than 0.3 degrees, and otherwise the argument
\* plus the offset, rounded to 0.5 degrees and then clamped to the range of
\* the AC.
C18_CompensationFormula ==
    CompensationCalled
    => ret = IF ~shelly.isAvailable \/ Abs(temperatureOffset) < 3
             THEN args.userTarget
             ELSE Clamp(minTempCoolDryAuto, maxTempHeat,
                        RoundToHalfDegree(args.userTarget + temperatureOffset))

C20_OffsetChangesOnlyBeyondJitter ==
    [][temperatureOffset' # temperatureOffset
          => /\ deviceData'.RoomTemperature # Null
             /\ \/ temperatureOffset' = deviceData'.RoomTemperature - roomCurrentTemp
                \/ temperatureOffset' = deviceData'.RoomTemperature - externalTemperature'
             /\ Abs(temperatureOffset' - temperatureOffset) > 3]_vars

LastN(h, n) == IF Len(h) > n THEN SubSeq(h, Len(h) - n + 1, Len(h)) ELSE h

NullTimers == [lastOnTime |-> Null, lastOffTime |-> Null, lastModeSwitch |-> Null]

AfterReset ==
    /\ currentState = STANDBY
    /\ timers = NullTimers

\* C23: reset() puts the machine in STANDBY with the three timers null and
\* leaves the history as it was, whatever the state and the timers were; and
\* from what reset() establishes, processUpdate is never blocked by a timer:
\* it ends in the state it determined.
C23_ResetClearsStateAndTimers ==
    [][/\ reset(now) =>
              /\ currentState' = STANDBY
              /\ timers' = NullTimers
              /\ stateHistory' = stateHistory
       /\ AfterReset =>
              \A p \in OverrideParams :
                  processUpdate(p, now) =>
                      /\ result'.reason # Blocked
                      /\ p.currentTemp # Null => currentState' = DesiredOf(p)]_vars

\* Heating started, was reset within MIN_ON_TIME, and started again at once:
\* the second history entry leaves STANDBY although the first one entered
\* HEATING_ACTIVE, and MIN_OFF_TIME did not hold it back.
C23_Witness ==
    /\ Len(stateHistory) = 2
    /\ stateHistory[1].to = HEATING_ACTIVE
    /\ stateHistory[2].from = STANDBY
    /\ stateHistory[2].to = HEATING_ACTIVE
    /\ stateHistory[2].reason.text = "Starting heating - room too cold"
    /\ stateHistory[2].timestamp - stateHistory[1].timestamp < minOnTime
    /\ currentState = HEATING_ACTIVE
    /\ timers.lastOffTime = Null

\* C24: forceState(s, reason) ends in s from every state and with every timer
\* setting, returns action null, appends the one entry {from, to = s,
\* timestamp, reason} to the history (the oldest entry leaving a full ring),
\* and sets lastOffTime when an active state is left for an inactive one,
\* lastOnTime when an active state is entered from an inactive one and
\* lastModeSwitch when heating and cooling states follow each other.
C24_ForceStateBypassesGuards ==
    [][\A s \in States :
          forceState(s, ManualOverride, now) =>
              /\ currentState' = s
              /\ result' = [state |-> s, action |-> NullAction, reason |-> ManualOverride]
              /\ stateHistory' =
                     LastN(Append(stateHistory,
                                  [from |-> currentState, to |-> s,
                                   timestamp |-> now, reason |-> ManualOverride]),
                           maxHistoryLength)
              /\ timers'.lastOffTime =
                     (IF _isActiveState(currentState) /\ ~_isActiveState(s)
                      THEN now ELSE timers.lastOffTime)
              /\ timers'.lastOnTime =
                     (IF ~_isActiveState(currentState) /\ _isActiveState(s)
                      THEN now ELSE timers.lastOnTime)
              /\ timers'.lastModeSwitch =
                     (IF \/ _isHeatingState(currentState) /\ _isCoolingState(s)
                         \/ _isCoolingState(currentState) /\ _isHeatingState(s)
                      THEN now ELSE timers.lastModeSwitch)]_vars

\* A forced switch from heating to cooling inside MIN_ON_TIME and with no
\* time since the machine started heating.
C24_Witness ==
    /\ currentState = COOLING_ACTIVE
    /\ result = [state |-> COOLING_ACTIVE, action |-> NullAction, reason |-> ManualOverride]
    /\ Len(stateHistory) = 2
    /\ stateHistory[2] = [from |-> HEATING_ACTIVE, to |-> COOLING_ACTIVE,
                          timestamp |-> now, reason |-> ManualOverride]
    /\ stateHistory[1].to = HEATING_ACTIVE
    /\ stateHistory[1].reason.text = "Starting heating - room too cold"
    /\ now - stateHistory[1].timestamp < minModeSwitch
    /\ timers.lastModeSwitch = now
    /\ timers.lastOnTime = stateHistory[1].timestamp

(***************************************************************************)
(* The weather client: fetchForecast and its cache.                        *)
(***************************************************************************)
\* OpenMeteo.CACHE_HOURS, and OpenMeteo.POLL_INTERVAL in milliseconds.
CACHE_HOURS == 2
POLL_INTERVAL == 3600000

\* The bodies Open-Meteo answers with: hourly.time has hours entries, and
\* hourly.temperature_2m, when present, holds first + i tenths of a degree
\* for hour i.
Responses ==
    [hours : {0, 1, 48, 49}, first : {50}, hasTemperatures : BOOLEAN]

\* What a fetch runs into: a body, an HTTP status that is not ok, the abort
\* after REQUEST_TIMEOUT, or a body that is not JSON or has no hourly part.
FetchOutcomes ==
    [kind : {"ok"}, data : Responses]
    \cup [kind : {"http", "timeout", "parse"}, data : {[hours |-> 0, first |-> 50, hasTemperatures |-> FALSE]}]

\* _parseResponse: the first 48 entries of hourly.time, a temperature that is
\* missing becoming null.
_parseResponse(data, t) ==
    [fetchTime |-> t,
     hourly |-> [i \in 1..(IF data.hours < 48 THEN data.hours ELSE 48) |->
                    [temperature |-> IF data.hasTemperatures THEN data.first + i ELSE Null]]]

\* Mutant: a failed fetch drops the cached forecast.
fetchForecast_FailureDropsCache(outcome, t) ==
    IF outcome.kind = "ok"
    THEN /\ weather' = [forecast |-> _parseResponse(outcome.data, t),
                        lastFetchTime |-> t, isAvailable |-> TRUE]
         /\ ret' = weather'.forecast
    ELSE /\ weather' = [weather EXCEPT !.isAvailable = FALSE, !.forecast = NullForecast]
         /\ ret' = NullForecast

\* fetchForecast: the try block stores the parsed forecast, the fetch time and
\* isAvailable = true and returns the forecast; the catch block sets
\* isAvailable = false and returns the cached forecast, or null without one.
fetchForecast(outcome, t) ==
    IF outcome.kind = "ok"
    THEN /\ weather' = [forecast |-> _parseResponse(outcome.data, t),
                        lastFetchTime |-> t, isAvailable |-> TRUE]
         /\ ret' = weather'.forecast
    ELSE /\ weather' = [weather EXCEPT !.isAvailable = FALSE]
         /\ ret' = weather.forecast

isCacheValid(w, t) ==
    /\ w.lastFetchTime # Null
    /\ t - w.lastFetchTime < CACHE_HOURS * 1000 * 60 * 60

getForecast(w) == w.forecast

getIsAvailable(w, t) == w.isAvailable /\ isCacheValid(w, t)

\* The polling callback of WeatherClient.init, and init's first fetch.
FetchForecast ==
    \E outcome \in FetchOutcomes :
        /\ fetchForecast(outcome, now)
        /\ args' = [fn |-> "fetchForecast", outcome |-> outcome.kind]
        /\ UNCHANGED <<accVars, now, smVars, devVars, ctlVars, offsetVars, humidity,
                       lastRequestTime, waiting, inflight, requests, poll>>

AdvanceWeather ==
    /\ now + POLL_INTERVAL <= StartTime + WeatherRun
    /\ now' = now + POLL_INTERVAL
    /\ UNCHANGED <<accVars, smVars, devVars, callVars, ctlVars, offsetVars, cliVars>>

WeatherNext == FetchForecast \/ AdvanceWeather

WeatherSpec == Init /\ [][WeatherNext]_vars

\* C25: a fetch that fails when a forecast is cached leaves the forecast and
\* its fetch time as they were, returns the cached forecast (nothing is
\* thrown), and the cache is reported unavailable; a fetch that succeeds
\* replaces the forecast by the hours of the new body, 48 of them at most,
\* stamped with the time of the fetch, and the cache is reported available.
C25_FailedFetchKeepsForecast ==
    [][\A outcome \in FetchOutcomes :
          args'.fn = "fetchForecast" /\ fetchForecast(outcome, now) =>
              IF outcome.kind = "ok"
              THEN /\ Len(getForecast(weather').hourly) <= 48
                   /\ Len(getForecast(weather').hourly) \in {outcome.data.hours, 48}
                   /\ \A i \in 1..Len(getForecast(weather').hourly) :
                          getForecast(weather').hourly[i].temperature =
                              (IF outcome.data.hasTemperatures
                               THEN outcome.data.first + i ELSE Null)
                   /\ getForecast(weather').fetchTime = now
                   /\ weather'.lastFetchTime = now
                   /\ getIsAvailable(weather', now)
                   /\ ret' = getForecast(weather')
              ELSE weather.forecast # NullForecast =>
                   /\ getForecast(weather') = getForecast(weather)
                   /\ weather'.lastFetchTime = weather.lastFetchTime
                   /\ ~getIsAvailable(weather', now)
                   /\ ret' = getForecast(weather)]_vars

\* A fetch timed out an hour after a 49-hour body was stored: the 48 hours of
\* that body are still returned and the cache is reported unavailable.
C25_Witness ==
    /\ args = [fn |-> "fetchForecast", outcome |-> "timeout"]
    /\ weather.forecast # NullForecast
    /\ Len(weather.forecast.hourly) = 48
    /\ ret = weather.forecast
    /\ weather.lastFetchTime = now - POLL_INTERVAL
    /\ ~getIsAvailable(weather, now)
    /\ isCacheValid(weather, now)

(***************************************************************************)
(* The external-sensor client: fetchTemperature, its rate limit and its    *)
(* callers.                                                                *)
(***************************************************************************)
\* ShellyCloud.minRequestInterval.
minRequestInterval == 1000

\* device.pollInterval in milliseconds: (config.pollInterval || 60) * 1000
\* for settings of 0.4 and 1.
PollIntervals == {400, 1000}

\* device_status of the bodies the Shelly cloud answers with.
Readings == [tC : {215, 225}, rh : {40, Null}]
NoReading == [tC |-> Null, rh |-> Null]

\* What a request runs into: a body with a temperature, a rejected fetch, an
\* HTTP status that is not ok, isok false, or a body without temperature:0.tC.
PollOutcomes ==
    [kind : {"ok"}, reading : Readings]
    \cup [kind : {"network", "http", "notok", "noTemperature"}, reading : {NoReading}]

\* ExternalSensor.init has created the client and armed setInterval; its
\* own first fetch is the poll that is due at once.
SensorInit ==
    /\ now = StartTime
    /\ SMInit(HistoryKept)
    /\ DeviceFields
    /\ ClientFields
    /\ AccessoryInit
    /\ \E interval \in PollIntervals : poll = [interval |-> interval, next |-> StartTime]
    /\ NoCall
    /\ ControllerConstructed(DEFAULT_TARGET_TEMP)

\* fetchTemperature from the end of the rate-limit wait to the fetch call.
sendRequest(t) ==
    /\ lastRequestTime' = t
    /\ requests' = Append(requests, t)
    /\ inflight' = inflight + 1

\* fetchTemperature up to its first await: the wait is computed from
\* lastRequestTime as it is when the call starts.
fetchTemperature(t) ==
    LET timeSinceLastRequest == t - lastRequestTime
    IN  IF timeSinceLastRequest < minRequestInterval
        THEN /\ waiting' = Append(waiting, t + (minRequestInterval - timeSinceLastRequest))
             /\ UNCHANGED <<lastRequestTime, requests, inflight>>
        ELSE /\ sendRequest(t)
             /\ UNCHANGED waiting

\* Mutant: a failed poll clears the stored reading.
handleResponse_FailureClearsReading(outcome) ==
    IF outcome.kind = "ok"
    THEN /\ shelly' = [temperature |-> outcome.reading.tC, isAvailable |-> TRUE]
         /\ humidity' = outcome.reading.rh
         /\ ret' = [temperature |-> outcome.reading.tC, humidity |-> outcome.reading.rh]
         /\ externalTemperature' = outcome.reading.tC
         /\ updateTemperatureOffset(outcome.reading.tC)
    ELSE /\ shelly' = [temperature |-> Null, isAvailable |-> FALSE]
         /\ humidity' = Null
         /\ ret' = Null
         /\ UNCHANGED <<externalTemperature, offsetVars>>

\* fetchTemperature from the response on.  With a temperature in the body it
\* stores temperature and humidity, sets isAvailable and emits 'temperature',
\* whose listener stores externalTemperature and updates the offset; every
\* other outcome ends in the catch block, which sets isAvailable = false and
\* returns null.
handleResponse(outcome) ==
    IF outcome.kind = "ok"
    THEN /\ shelly' = [temperature |-> outcome.reading.tC, isAvailable |-> TRUE]
         /\ humidity' = outcome.reading.rh
         /\ ret' = [temperature |-> outcome.reading.tC, humidity |-> outcome.reading.rh]
         /\ externalTemperature' = outcome.reading.tC
         /\ updateTemperatureOffset(outcome.reading.tC)
    ELSE /\ shelly' = [shelly EXCEPT !.isAvailable = FALSE]
         /\ ret' = Null
         /\ UNCHANGED <<humidity, externalTemperature, offsetVars>>

\* The setInterval callback fires when it is due and starts a call.
PollFetch ==
    /\ now >= poll.next
    /\ Len(requests) + Len(waiting) < MaxPolls
    /\ poll' = [poll EXCEPT !.next = now + poll.interval]
    /\ fetchTemperature(now)
    /\ UNCHANGED <<accVars, now, smVars, devVars, callVars, ctlVars, offsetVars, weather, humidity>>

\* The timer of a waiting call fires at or after its time.
WakeFetch ==
    \E i \in 1..Len(waiting) :
        /\ waiting[i] <= now
        /\ waiting' = SubSeq(waiting, 1, i - 1) \o SubSeq(waiting, i + 1, Len(waiting))
        /\ sendRequest(now)
        /\ UNCHANGED <<accVars, now, smVars, devVars, callVars, ctlVars, offsetVars, weather, humidity, poll>>

\* The response of a request arrives, or the request fails.
Response ==
    /\ inflight > 0
    /\ inflight' = inflight - 1
    /\ \E outcome \in PollOutcomes :
           /\ handleResponse(outcome)
           /\ args' = [fn |-> "fetchTemperature", outcome |-> outcome.kind,
                       reading |-> outcome.reading]
    /\ UNCHANGED <<accVars, now, smVars, ctlVars, roomCurrentTemp, lastActionTime, sends,
                   weather, lastRequestTime, waiting, requests, poll>>

\* Date.now() moves on; a poll that is due fires first.
SensorTick ==
    /\ now < poll.next
    /\ now + SensorStep <= StartTime + SensorRun
    /\ now' = now + SensorStep
    /\ UNCHANGED <<accVars, smVars, devVars, callVars, ctlVars, offsetVars, cliVars>>

SensorNext == PollFetch \/ WakeFetch \/ Response \/ SensorTick

SensorSpec == SensorInit /\ [][SensorNext]_vars

\* C26: a poll that fails leaves the stored temperature and humidity as they
\* were, sets isAvailable to false and returns null instead of throwing; a
\* poll that succeeds stores the temperature and humidity of its body and
\* sets isAvailable to true.
C26_FailedPollKeepsReading ==
    [][inflight' < inflight =>
          IF args'.outcome = "ok"
          THEN /\ shelly'.temperature = args'.reading.tC
               /\ humidity' = args'.reading.rh
               /\ shelly'.isAvailable
          ELSE /\ shelly'.temperature = shelly.temperature
               /\ humidity' = humidity
               /\ ~shelly'.isAvailable
               /\ ret' = Null]_vars

\* The second poll failed after the first had stored 21.5 degrees and 40 %.
C26_Witness ==
    /\ Len(requests) = 2
    /\ inflight = 0
    /\ args.fn = "fetchTemperature"
    /\ args.outcome = "http"
    /\ shelly = [temperature |-> 215, isAvailable |-> FALSE]
    /\ humidity = 40

\* C27: two consecutive HTTP requests of the external-sensor client are at
\* least minRequestInterval apart.
C27_RequestsOneSecondApart ==
    \A i \in 1..(Len(requests) - 1) :
        requests[i + 1] - requests[i] >= minRequestInterval

(***************************************************************************)
(* The season mode.                                                        *)
(***************************************************************************)
\* The values of HomeKit's TargetHeaterCoolerState.
HeaterCoolerState == [AUTO |-> 0, HEAT |-> 1, COOL |-> 2]

\* The operation modes MELCloud reports: HEAT, DRY, COOL, FAN, AUTO and the
\* three ISEE modes.
OperationModes == {1, 2, 3, 7, 8, 9, 10, 11}

\* parseOperationModes: the mode selector of the accessory for an operation
\* mode, autoDryFanMode, heatDryFanMode and coolDryFanMode having their
\* default of 1, which maps DRY and FAN to AUTO.
parseOperationModes(operationMode) ==
    IF operationMode \in {1, 9} THEN HeaterCoolerState.HEAT
    ELSE IF operationMode \in {3, 11} THEN HeaterCoolerState.COOL
    ELSE HeaterCoolerState.AUTO

\* StateParser.parse, as far as the mode goes.
parse(operationMode) ==
    [operationMode |-> operationMode,
     targetOperationMode |-> parseOperationModes(operationMode)]

\* object?.name: undefined for a field the object does not have.
Field(object, name) == IF name \in DOMAIN object THEN object[name] ELSE Null

\* getForecastTemperatures(hours): the temperatures of the first hours
\* entries that are not null.
getForecastTemperatures(w, hours) ==
    LET NotNull(entry) == entry.temperature # Null
        kept == SelectSeq(SubSeq(w.forecast.hourly, 1,
                                 IF Len(w.forecast.hourly) < hours
                                 THEN Len(w.forecast.hourly) ELSE hours), NotNull)
    IN  [i \in 1..Len(kept) |-> kept[i].temperature]

\* getSeasonMode.  It reads accessoryState.targetHeaterCoolerState, and the
\* average of getAverageForecastTemp(24) is compared as a sum:
\* sum / n > targetTemperature.
getSeasonMode ==
    LET targetState == Field(accessoryState, "targetHeaterCoolerState")
        temps == getForecastTemperatures(weather, 24)
    IN  IF targetState = HeaterCoolerState.HEAT THEN WINTER
        ELSE IF targetState = HeaterCoolerState.COOL THEN SUMMER
        ELSE IF Len(temps) > 0
             THEN (IF SeqSum(temps) > targetTemperature * Len(temps)
                   THEN SUMMER ELSE WINTER)
        ELSE WINTER

\* The forecasts, modes and comfort preferences getSeasonMode is called with.
SeasonResponses ==
    [hours : {0, 1, 48}, first : {219, 229, 239, 249}, hasTemperatures : BOOLEAN]

SeasonPreferences == {Null, 210, 230, 250}

SeasonInit ==
    /\ now = StartTime
    /\ SMInit(HistoryKept)
    /\ DeviceFields
    /\ humidity = Null
    /\ lastRequestTime = 0
    /\ waiting = << >>
    /\ inflight = 0
    /\ requests = << >>
    /\ poll = [interval |-> Null, next |-> Null]
    /\ \E data \in SeasonResponses :
           weather = [forecast |-> _parseResponse(data, StartTime),
                      lastFetchTime |-> StartTime, isAvailable |-> TRUE]
    /\ \E operationMode \in OperationModes : accessoryState = parse(operationMode)
    /\ writes = << >>
    /\ NoCall
    /\ targetTemperature = DEFAULT_TARGET_TEMP
    /\ userComfortPreference \in SeasonPreferences

GetSeasonMode ==
    /\ args = [fn |-> "none"]
    /\ ret' = getSeasonMode
    /\ args' = [fn |-> "getSeasonMode"]
    /\ UNCHANGED <<now, smVars, devVars, ctlVars, offsetVars, cliVars, accVars>>

SeasonSpec == SeasonInit /\ [][GetSeasonMode]_vars

\* The season the mode selector, the forecast and the user comfort target
\* call for.
SeasonBySelector ==
    LET selector == accessoryState.targetOperationMode
        temps == getForecastTemperatures(weather, 24)
    IN  IF selector = HeaterCoolerState.HEAT THEN WINTER
        ELSE IF selector = HeaterCoolerState.COOL THEN SUMMER
        ELSE IF Len(temps) = 0 THEN WINTER
        ELSE IF SeqSum(temps) <= getUserComfortPreference * Len(temps) THEN WINTER
        ELSE SUMMER

\* C28: getSeasonMode returns winter when the mode selector is HEAT, summer
\* when it is COOL, and for AUTO winter when the average of the next 24
\* forecast temperatures is at most the user comfort target or there is no
\* forecast, summer otherwise.
C28_SeasonFollowsSelector ==
    args.fn = "getSeasonMode" => ret = SeasonBySelector

(***************************************************************************)
(* The user comfort target: snapshots, writes through the accessory and    *)
(* the ticks that pass the target on.                                      *)
(***************************************************************************)
\* The snapshots of this run: the AC is set to 21.0 or to 23.0 degrees.
TargetSnapshots ==
    {[RoomTemperature |-> 202, SetTemperature |-> 210],
     [RoomTemperature |-> 202, SetTemperature |-> 230]}

\* The temperatures written to the threshold characteristics, two of them
\* outside the comfort band of 20.0 to 26.0 degrees.
TargetWrites == {190, 215, 250, 280}

TargetParams ==
    [currentTemp : {Null, 225}, targetTemp : {200, 215, 230, 250, 260},
     predictedSetpoint : {245}, seasonMode : {WINTER}, forecast : {NoForecast}]

\* DeviceAta.start has run externalSensor.init and predictiveController.init,
\* which sets userComfortPreference to targetTemperature; the first snapshot
\* and the accessory's services come after that.  The device has its sensor
\* reading, or none.
TargetInit ==
    /\ now = StartTime
    /\ SMInit(HistoryKept)
    /\ roomCurrentTemp \in {Null, 225}
    /\ externalTemperature = Null
    /\ shelly = [temperature |-> Null, isAvailable |-> FALSE]
    /\ lastActionTime = Null
    /\ sends = << >>
    /\ temperatureOffset = 0
    /\ deviceData = NoDeviceData
    /\ userTargetTemperature = Null
    /\ lastCompensatedTarget = Null
    /\ reapplySends = << >>
    /\ ClientsConstructed
    /\ AccessoryInit
    /\ NoCall
    /\ targetTemperature = DEFAULT_TARGET_TEMP
    /\ userComfortPreference = targetTemperature

\* The number the next tick carries.
NextTick == IF args.fn = "processStateUpdate" THEN args.tick + 1 ELSE 1

\* The outcome of the most recent write, as a tick finds it.
LastWriteOutcome ==
    IF writes = << >> THEN "none" ELSE writes[Len(writes)].outcome

\* The deviceState handler for a snapshot; the comfort target that
\* processStateUpdate hands to the calculator and to the state machine is
\* getUserComfortPreference().
TargetTick ==
    /\ Len(sends) < MaxSends
    /\ NextTick <= MaxTicks
    /\ \E snapshot \in TargetSnapshots, params \in TargetParams :
          /\ params.targetTemp = getUserComfortPreference
          /\ storeSnapshot(snapshot)
          /\ processStateUpdate(params)
          /\ executeAction(result', params)
          /\ deviceData' = dataAfterAction(snapshot, result')
          /\ args' = [fn |-> "processStateUpdate", tick |-> NextTick,
                      userComfortTarget |-> params.targetTemp,
                      lastWrite |-> LastWriteOutcome]
    /\ UNCHANGED <<now, roomCurrentTemp, externalTemperature, shelly, ret,
                   ctlVars, cliVars, accVars>>

\* Mutant: the comfort preference is not stored by the write itself.
onSet_StoresAfterSend(value, setpoint) ==
    LET compensatedValue == Compensated(setpoint, temperatureOffset, externalTemperature)
    IN  /\ userTargetTemperature' = value
        /\ UNCHANGED userComfortPreference
        /\ lastCompensatedTarget' = compensatedValue
        /\ IF deviceData = NoDeviceData
           THEN /\ writes' = Append(writes, [value |-> value, outcome |-> "threw"])
                /\ UNCHANGED deviceData
           ELSE /\ writes' = Append(writes, [value |-> value, outcome |-> "pending"])
                /\ deviceData' = [deviceData EXCEPT !.SetTemperature = compensatedValue]

\* onSet of HeatingThresholdTemperature and CoolingThresholdTemperature, up
\* to the awaited send: it stores the value, has getPredictiveSetpoint store
\* the clamped comfort preference and compute the setpoint, compensates it
\* and writes it into deviceData.  Without a snapshot deviceData.Device is
\* undefined and the assignment throws into the catch block.
onSet(value, setpoint) ==
    LET compensatedValue == Compensated(setpoint, temperatureOffset, externalTemperature)
    IN  /\ userTargetTemperature' = value
        /\ userComfortPreference' = setUserComfortPreference(value)
        /\ lastCompensatedTarget' = compensatedValue
        /\ IF deviceData = NoDeviceData
           THEN /\ writes' = Append(writes, [value |-> value, outcome |-> "threw"])
                /\ UNCHANGED deviceData
           ELSE /\ writes' = Append(writes, [value |-> value, outcome |-> "pending"])
                /\ deviceData' = [deviceData EXCEPT !.SetTemperature = compensatedValue]

UserWrite ==
    /\ Len(writes) < MaxWrites
    /\ \E value \in TargetWrites, setpoint \in Setpoints : onSet(value, setpoint)
    /\ UNCHANGED <<now, smVars, devVars, callVars, cliVars, targetTemperature,
                   temperatureOffset, reapplySends, accessoryState>>

\* The awaited send of a write resolves.
WriteSendOk ==
    \E i \in 1..Len(writes) :
        /\ writes[i].outcome = "pending"
        /\ writes' = [writes EXCEPT ![i].outcome = "ok"]
        /\ UNCHANGED <<now, smVars, devVars, callVars, ctlVars, offsetVars, cliVars,
                       accessoryState>>

\* The awaited send of a write rejects: the catch block logs the error.
WriteSendFail ==
    \E i \in 1..Len(writes) :
        /\ writes[i].outcome = "pending"
        /\ writes' = [writes EXCEPT ![i].outcome = "failed"]
        /\ UNCHANGED <<now, smVars, devVars, callVars, ctlVars, offsetVars, cliVars,
                       accessoryState>>

TargetNext ==
    \/ TargetTick
    \/ UserWrite
    \/ WriteSendOk
    \/ WriteSendFail

TargetSpec == TargetInit /\ [][TargetNext]_vars

\* A step that is a tick.
Ticked == args' # args /\ args'.fn = "processStateUpdate"

\* The value a write leaves as the comfort target: the value clamped to the
\* comfort band.
WrittenTarget ==
    Clamp(targetTemperature - COMFORT_BAND, targetTemperature + COMFORT_BAND,
          writes[Len(writes)].value)

\* C29: as long as nothing has been written through the accessory, the
\* comfort target a tick passes on is the set temperature of the first
\* snapshot (which the device keeps as userTargetTemperature); after a
\* write it is the last written value clamped to the comfort band, whatever
\* the snapshots report.
C29_TargetFromFirstSnapshotThenWrites ==
    [][Ticked =>
          args'.userComfortTarget =
              (IF writes = << >> THEN userTargetTemperature' ELSE WrittenTarget)]_vars

\* C30: a tick after a write passes on the written value (clamped to the
\* comfort band) whether the send of that write succeeded, failed, threw
\* before it started or is still under way; a send that fails changes
\* nothing but the record of the write.
C30_WriteStoredDespiteFailedSend ==
    [][/\ Ticked /\ writes # << >> => args'.userComfortTarget = WrittenTarget
       /\ writes' # writes /\ Len(writes') = Len(writes) =>
              UNCHANGED <<smVars, devVars, callVars, ctlVars, offsetVars>>
       /\ Len(writes') > Len(writes) =>
              userComfortPreference' =
                  Clamp(targetTemperature - COMFORT_BAND, targetTemperature + COMFORT_BAND,
                        writes'[Len(writes')].value)]_vars

\* 28.0 degrees were written, the send failed, and the next tick passed the
\* clamped 26.0 degrees on.
C30_Witness ==
    /\ args.fn = "processStateUpdate"
    /\ args.lastWrite = "failed"
    /\ writes # << >>
    /\ writes[Len(writes)] = [value |-> 280, outcome |-> "failed"]
    /\ args.userComfortTarget = 260
    /\ userComfortPreference = 260

(***************************************************************************)
(* The polling loop under steady inputs.  The deviceState handler calls    *)
(* processUpdate on every poll; the inputs vary while now <= SettleBy and  *)
(* are then held: args keeps the parameters every later tick is made with, *)
(* the time of the last such tick and the parity of their number.  Once    *)
(* the inputs are held every poll interval has its tick; ticks keep        *)
(* arriving and Date.now() keeps advancing (up to LiveMaxTime).            *)
(***************************************************************************)
SettleBy == 1000000
LiveMaxTime == 2100000

LiveParams == {p \in Params : p.predictedSetpoint = 220}

AdvanceLive ==
    /\ now + TickStep <= LiveMaxTime
    /\ args.fn = "processUpdate" => args.at = now
    /\ now' = now + TickStep
    /\ UNCHANGED <<accVars, cliVars, smVars, devVars, callVars, ctlVars, offsetVars>>

\* A poll while the inputs still vary.
VaryingTick ==
    /\ args.fn = "none"
    /\ now <= SettleBy
    /\ \E params \in LiveParams : processUpdate(params, now)
    /\ UNCHANGED <<accVars, cliVars, now, devVars, callVars, ctlVars, offsetVars>>

\* The first poll with the inputs that are held from now on.
SettledTick ==
    /\ args.fn = "none"
    /\ now <= SettleBy
    /\ \E params \in LiveParams :
           /\ processUpdate(params, now)
           /\ args' = [fn |-> "processUpdate", params |-> params, at |-> now,
                       tick |-> 0]
    /\ UNCHANGED <<accVars, cliVars, now, devVars, ret, ctlVars, offsetVars>>

\* Every later poll, with the same inputs.
HeldTick ==
    /\ args.fn = "processUpdate"
    /\ processUpdate(args.params, now)
    /\ args' = [args EXCEPT !.at = now, !.tick = 1 - @]
    /\ UNCHANGED <<accVars, cliVars, now, devVars, ret, ctlVars, offsetVars>>

LiveNext == AdvanceLive \/ VaryingTick \/ SettledTick \/ HeldTick

LiveSpec ==
    Init /\ [][LiveNext]_vars /\ WF_vars(AdvanceLive) /\ WF_vars(HeldTick)

Held == args.fn = "processUpdate"

\* The held forecast holds no cold snap and no heatwave, and the held room
\* temperature is within 2 degrees of the target.
SnapGone ==
    /\ Held
    /\ args.params.currentTemp # Null
    /\ args.params.forecast = NoForecast
    /\ args.params.currentTemp - args.params.targetTemp <= 20
    /\ args.params.targetTemp - args.params.currentTemp <= 20

\* C31: in PRE_HEAT (PRE_COOL), once the forecast holds no cold snap
\* (heatwave) any more and the room temperature stays within 2 degrees of the
\* target, the machine eventually leaves for STANDBY.
C31_AnticipationEndsInStandby ==
    [](SnapGone /\ currentState \in {PRE_HEAT, PRE_COOL}
         => <>(currentState = STANDBY))

(***************************************************************************)
(* The components calculateSetpoint reports, with forecasts shorter than   *)
(* the 24 hour horizon among the inputs.                                   *)
(***************************************************************************)
ShortForecastTempArrays ==
    {<< >>, <<-100>>, <<-100, -100, -100>>, [i \in 1..23 |-> 350],
     [i \in 1..24 |-> -100]}

ComponentsParams ==
    [userComfortTarget : {230}, currentIndoorTemp : {Null, 230},
     currentOutdoorTemp : OutdoorTemps, forecastTemps : ShortForecastTempArrays,
     forecastSolar : {<< >>}, seasonMode : SeasonMode]

\* components.forecastAdjustment of calculateSetpoint(params): 0 unless
\* Layer 2 runs.
forecastAdjustment(params) ==
    IF Len(params.forecastTemps) > 0
    THEN _calculateForecastAdjustment(params.forecastTemps,
             params.currentOutdoorTemp, params.seasonMode)
    ELSE 0

\* One call, from the state after construction; the call returns and does
\* not throw.
CalculateComponents ==
    \E params \in ComponentsParams :
        /\ args = [fn |-> "none"]
        /\ args' = [fn |-> "calculateSetpoint", params |-> params]
        /\ ret' = [predictedRoomTarget |-> calculateSetpoint(params),
                   components |-> [forecastAdjustment |-> forecastAdjustment(params)]]
        /\ UNCHANGED <<accVars, cliVars, now, smVars, devVars, ctlVars, offsetVars>>

ComponentsSpec == Init /\ [][CalculateComponents]_vars

\* C32: a call whose forecast has fewer than 24 samples reports
\* components.forecastAdjustment = 0.
C32_ShortForecastDisablesLookAhead ==
    args.fn = "calculateSetpoint" /\ Len(args.params.forecastTemps) < 24
        => ret.components.forecastAdjustment = 0

(***************************************************************************)
(* The command sent on entering STANDBY.                                   *)
(***************************************************************************)
\* The effective flags under which the AC applies deviceData.Device.Power.
PowerFlags == {"Power", "PowerOperationModeSetTemperature"}

\* C33: the command issued on entering STANDBY turns the AC's power off: it
\* is sent with effective flags that apply the power field.
C33_StandbyCommandSwitchesPowerOff ==
    \A i \in 1..Len(sends) :
        sends[i].state = STANDBY => sends[i].flags \in PowerFlags

(***************************************************************************)
(* A send that throws inside executeAction.                                *)
(***************************************************************************)
\* The step in which the awaited send of sends[i] rejects.
SendRejects(i) ==
    /\ i <= Len(sends) /\ Len(sends') = Len(sends)
    /\ sends[i].outcome = "pending"
    /\ sends'[i].outcome = "failed"

\* C34: when the send throws, executeAction ends with lastActionTime at its
\* previous value and with the state machine's state, timers, time of entry
\* and history as they were.
C34_FailedSendChangesNothing ==
    [][\A i \in 1..MaxSends :
          SendRejects(i) =>
              /\ lastActionTime' = lastActionTime
              /\ currentState' = currentState
              /\ stateEnteredAt' = stateEnteredAt
              /\ timers' = timers
              /\ stateHistory' = stateHistory]_vars

\* A command of a completed transition failed and was the only one: the
\* machine is in the state the command was for and no action time is kept.
C34_Witness ==
    /\ Len(sends) = 1
    /\ sends[1].outcome = "failed"
    /\ sends[1].state = HEATING_ACTIVE
    /\ currentState = HEATING_ACTIVE
    /\ lastActionTime = Null

(***************************************************************************)
(* The minimum on-time against a change of mode.                           *)
(***************************************************************************)
\* The machine is in an active state of the family, entered from a
\* non-active state less than MIN_ON ago.
EnteredWithinMinOn(family) ==
    /\ currentState \in family
    /\ timers.lastOnTime = stateEnteredAt
    /\ now - stateEnteredAt < minOnTime

\* C35: for MIN_ON after the machine entered HEATING_ACTIVE or PRE_HEAT from
\* a non-active state, no call returns a setMode(cool) action or enters a
\* state of the cooling family; symmetrically for cooling then heating.
C35_NoOppositeModeWithinMinOn ==
    [][/\ EnteredWithinMinOn({HEATING_ACTIVE, PRE_HEAT}) =>
            /\ ~_isCoolingState(currentState')
            /\ result'.action # SetModeAction("cool", result'.action.setpoint)
       /\ EnteredWithinMinOn({COOLING_ACTIVE, PRE_COOL}) =>
            /\ ~_isHeatingState(currentState')
            /\ result'.action # SetModeAction("heat", result'.action.setpoint)]_vars

(***************************************************************************)
(* The device under fair scheduling: polls keep delivering deviceState     *)
(* events, awaited sends resolve, the room temperature keeps being         *)
(* reported and Date.now() keeps advancing (up to DeviceMaxTime).          *)
(***************************************************************************)
DeviceLiveMaxTime == 1120000

WaitLive ==
    /\ now + PollStep <= DeviceLiveMaxTime
    /\ now' = now + PollStep
    /\ UNCHANGED <<accVars, cliVars, smVars, devVars, callVars, ctlVars, offsetVars>>

DeviceStateLive ==
    \E params \in {p \in DeviceParams : p.predictedSetpoint = 220} :
        deviceState(params)

DeviceLiveNext ==
    \/ WaitLive
    \/ SetRoomCurrentTemp
    \/ DeviceStateLive
    \/ SendOk

DeviceLiveSpec ==
    /\ Init /\ [][DeviceLiveNext]_vars
    /\ WF_vars(WaitLive) /\ WF_vars(SetRoomCurrentTemp)
    /\ WF_vars(DeviceStateLive) /\ WF_vars(SendOk)

\* A setMode command for the mode was handed to send since the current state
\* was entered.
SetModeSentSince(mode) ==
    \E i \in 1..Len(sends) :
        /\ sends[i].action.type = "setMode"
        /\ sends[i].action.mode = mode
        /\ sends[i].at >= stateEnteredAt

\* executeAction would drop an action now.
RateLimited ==
    Truthy(lastActionTime) /\ now - lastActionTime < minActionInterval

\* C36: the machine does not stay in HEATING_ACTIVE or PRE_HEAT
\* (COOLING_ACTIVE or PRE_COOL) for ever without a setMode command for that
\* mode having been sent since the state was entered: once the rate limit
\* that dropped the command is over, a later tick dispatches it.
C36_DroppedCommandDispatchedLater ==
    /\ (currentState \in {HEATING_ACTIVE, PRE_HEAT})
          ~> (\/ currentState \notin {HEATING_ACTIVE, PRE_HEAT}
              \/ SetModeSentSince("heat")
              \/ RateLimited)
    /\ (currentState \in {COOLING_ACTIVE, PRE_COOL})
          ~> (\/ currentState \notin {COOLING_ACTIVE, PRE_COOL}
              \/ SetModeSentSince("cool")
              \/ RateLimited)

(***************************************************************************)
(* A blocked transition under steady inputs.                               *)
(***************************************************************************)
\* The held inputs carry a room temperature and ask for state d, which the
\* last tick was refused.
BlockedFrom(d) ==
    /\ Held
    /\ args.params.currentTemp # Null
    /\ result.reason = Blocked
    /\ d # currentState
    /\ DesiredOf(args.params) = d

\* C37: when a tick is blocked by an anti-oscillation timer and the ticks go
\* on with the same inputs while time advances, the machine eventually
\* enters the state the inputs ask for.
C37_BlockedTransitionOnlyDelayed ==
    \A d \in States : [](BlockedFrom(d) => <>(currentState = d))

\* Heating was switched on at StartTime, the inputs held since then ask for
\* HEATING_COAST, and the machine entered it on the first tick after MIN_ON.
C37_Witness ==
    /\ Held
    /\ args.params.currentTemp = 260
    /\ args.params.seasonMode = WINTER
    /\ timers.lastOnTime = StartTime
    /\ currentState = HEATING_COAST
    /\ stateEnteredAt >= StartTime + minOnTime

(***************************************************************************)
(* The history and the time-in-state clock on repeated null readings.      *)
(***************************************************************************)
\* C38: every history entry records a change of state (from # to), and
\* stateEnteredAt is assigned only by a step that changes the state; so a
\* run of ticks without a reading adds one entry at most.
C38_HistoryRecordsRealChanges ==
    [][/\ \A i \in 1..Len(stateHistory') :
             stateHistory'[i].from # stateHistory'[i].to
       /\ (stateEnteredAt' # stateEnteredAt \/ stateHistory' # stateHistory)
             => currentState' # currentState]_vars

(***************************************************************************)
(* The season mode against the family of the state entered.                *)
(***************************************************************************)
\* C39: a processUpdate call with season mode summer does not move the
\* machine from outside the heating family into HEATING_ACTIVE, PRE_HEAT or
\* HEATING_COAST and returns no setMode(heat) action; a call with season mode
\* winter does not move it from outside the cooling family into
\* COOLING_ACTIVE, PRE_COOL or COOLING_COAST and returns no setMode(cool).
C39_SeasonKeepsFamily ==
    [][\A p \in LiveParams :
          processUpdate(p, now) =>
              /\ p.seasonMode = SUMMER =>
                    /\ ~_isHeatingState(currentState) => ~_isHeatingState(currentState')
                    /\ result'.action # SetModeAction("heat", p.predictedSetpoint)
              /\ p.seasonMode = WINTER =>
                    /\ ~_isCoolingState(currentState) => ~_isCoolingState(currentState')
                    /\ result'.action # SetModeAction("cool", p.predictedSetpoint)]_vars

\* Summer ticks found the room 3 degrees under the target, where a winter
\* tick would heat, and moved the machine from COOLING_ACTIVE to
\* COOLING_COAST.
C39_Witness ==
    /\ Held
    /\ args.params.seasonMode = SUMMER
    /\ args.params.currentTemp = 200
    /\ currentState = COOLING_COAST
    /\ Len(stateHistory) > 0
    /\ LastEntry.from = COOLING_ACTIVE
    /\ LastEntry.to = COOLING_COAST
    /\ result.action = CoastAction(result.action.setpoint)

(***************************************************************************)
(* The reported power of the AC among the inputs of a tick.                *)
(* processStateUpdate reads deviceData.Device.Power and passes it to       *)
(* processUpdate as acPowerState; the Active control writes                *)
(* deviceData.Device.Power when the user switches the AC on or off.        *)
(***************************************************************************)
PowerParams ==
    {[currentTemp |-> p.currentTemp, targetTemp |-> p.targetTemp,
      predictedSetpoint |-> p.predictedSetpoint, seasonMode |-> p.seasonMode,
      forecast |-> p.forecast, acPowerState |-> power] :
        p \in {q \in DeviceParams : /\ q.predictedSetpoint = 220
                                   /\ q.currentTemp # Null},
        power \in BOOLEAN}

\* The tick with the other reported power.
OtherPower(p) == [p EXCEPT !.acPowerState = ~@]

\* One tick of the handler: the state machine, then executeAction up to the
\* awaited send.  args keeps the power the tick was reported.
PowerTick ==
    /\ Len(sends) < MaxSends
    /\ \E params \in PowerParams :
          /\ processUpdate(params, now)
          /\ executeAction(result', params)
          /\ args' = [fn |-> "processUpdate", acPowerState |-> params.acPowerState]
    /\ UNCHANGED <<accVars, cliVars, now, roomCurrentTemp, externalTemperature,
                   shelly, ret, ctlVars, offsetVars>>

PowerMaxTime == 1380000

\* Date.now() moves on between the ticks.
AdvancePower ==
    /\ now + TickStep <= PowerMaxTime
    /\ now' = now + TickStep
    /\ UNCHANGED <<accVars, cliVars, smVars, devVars, callVars, ctlVars, offsetVars>>

PowerNext == AdvancePower \/ PowerTick \/ SendOk \/ SendFail

PowerSpec == Init /\ [][PowerNext]_vars

\* The command of a send: what _executeSetMode / _executeCoast is called
\* with and the effective flags, without the inputs kept beside it.
Command(send) ==
    [at |-> send.at, action |-> send.action, state |-> send.state,
     flags |-> send.flags]

Commands(q) == [i \in 1..Len(q) |-> Command(q[i])]

====
